---- MODULE Spec2Model ----
(***************************************************************************)
(* tmail: the Gmail monitor (gmail/client.go, StartMonitoring), the email  *)
(* channel created in main.go, and the Bubble Tea model of tui/app.go      *)
(* (Model.Update and its helpers).                                         *)
(*                                                                         *)
(* Message ids are 1..NumMsgs, the empty id "" is NoId.  Go slices are     *)
(* 0-based; the sequences below are 1-based, index variables that the Go   *)
(* code stores (selectedIdx, viewportTopLine) keep their 0-based values.   *)
(***************************************************************************)
EXTENDS Integers, Sequences, FiniteSets, TLC

\* ---------------------------------------------------------------- bounds
NumMsgs == 5            \* message ids that can ever arrive in the inbox
MaxPolls == 2           \* list calls of the poll phase
MaxRemovals == 1        \* messages that leave the inbox (archived, deleted)
MaxFocusScroll == 2     \* cap of focusedEmailScrollPos, which the code never bounds
MaxLines == 4           \* lines of content and of a pane tried on the render arithmetic
MaxWidth == 100         \* widest terminal tried on the layout arithmetic

\* ------------------------------------------------------- program constants
initialFetchCount == 3
periodicFetchCount == 2
emailChanCap == 2
emailListItemHeight == 4
minListPaneWidth == 30
minPreviewPaneWidth == 40
statusBarHeight == 1
listTitleRenderedHeight == 2
tempStatusDuration == 4
newStatusSubjectLen == 30
titleRenderedHeight == 1
contentBoxVerticalPadding == 0
previewHeaderHeight == 5
focusedHeaderLines == 8

NoId == 0
MsgIds == 1..NumMsgs

Min(a, b) == IF a < b THEN a ELSE b
Max(a, b) == IF a > b THEN a ELSE b

\* ------------------------------------------------------------ mail store
\* Header values of the stored messages, as sequences of characters.
FromPool == << <<"a", "@", "x">>, <<"N", "O", "@", "x">>, <<"b", "@", "x">>,
               <<"n", "@", "x">>, <<"a", "@", "x">> >>
SubjectPool == << <<"h", "i">>, <<"o", "k">>, <<"y", "o">>,
                  <<"S", "A", "L", "E">>, <<"s", "a", "l">> >>
BodyLinePool == <<1, 3, 2, 1, 3>>

MailFrom(id) == FromPool[((id - 1) % Len(FromPool)) + 1]
MailSubject(id) == SubjectPool[((id - 1) % Len(SubjectPool)) + 1]
MailBodyLines(id) == BodyLinePool[((id - 1) % Len(BodyLinePool)) + 1]
\* InternalDate grows with the id; three consecutive ids share one value.
MailInternalDate(id) == (id + 2) \div 3

\* filters.json as loaded by config.Manager
IgnoreSenders == << <<"x", "y">>, <<"n", "o", "@">> >>
IgnoreKeywordsInSubject == << <<"S", "a", "l", "e">> >>

\* --------------------------------------------------------------- strings
ToLowerChar(c) ==
    CASE c = "A" -> "a" [] c = "E" -> "e" [] c = "L" -> "l" [] c = "N" -> "n"
      [] c = "O" -> "o" [] c = "S" -> "s" [] OTHER -> c

ToLower(s) == [k \in 1..Len(s) |-> ToLowerChar(s[k])]

\* strings.Index: the first 0-based position of substr in s at or after k, or -1
RECURSIVE IndexFrom(_, _, _)
IndexFrom(s, substr, k) ==
    IF k + Len(substr) > Len(s) THEN -1
    ELSE IF SubSeq(s, k + 1, k + Len(substr)) = substr THEN k
    ELSE IndexFrom(s, substr, k + 1)

ContainsNever(s, substr) == FALSE

Contains(s, substr) == IndexFrom(s, substr, 0) >= 0

truncate(s, maxLen) ==
    IF Len(s) <= maxLen THEN s
    ELSE IF maxLen < 3 THEN SubSeq(s, 1, maxLen)
    ELSE SubSeq(s, 1, maxLen - 3) \o <<".", ".", ".">>

\* ---------------------------------------------------------------- filter
parseEmailDetails(id) ==
    [ID |-> id, InternalDate |-> MailInternalDate(id),
     From |-> MailFrom(id), Subject |-> MailSubject(id)]

RECURSIVE AnyContains(_, _, _)
AnyContains(text, rules, k) ==
    IF k > Len(rules) THEN FALSE
    ELSE IF Contains(ToLower(text), ToLower(rules[k])) THEN TRUE
    ELSE AnyContains(text, rules, k + 1)

applyFilters(email) ==
    IF AnyContains(email.From, IgnoreSenders, 1) THEN TRUE
    ELSE AnyContains(email.Subject, IgnoreKeywordsInSubject, 1)


\* ----------------------------------------------------------------- state
VARIABLES
    \* Gmail (the remote store)
    inbox,                  \* ids that "in:inbox -in:draft" matches now
    nextId,                 \* the id the next arriving message gets
    removals,               \* messages removed from the inbox so far
    \* main.go
    cancelled,              \* appCtx is done
    emailChan,              \* buffered channel of ProcessedEmail
    chanClosed,             \* close(emailChan) has run
    \* Client.StartMonitoring
    pc,                     \* where the monitor goroutine stands
    lastMessageId,
    initialList,            \* initialList.Messages (ids, newest first)
    newList,                \* newList.Messages of the current poll
    newMessagesToProcess,
    i,                      \* loop index of the fetch loops, 0-based, -1 after the loop
    processedEmail,         \* the email of the pending send, NoId if none
    polls,                  \* poll list calls made
    \* history of the monitor
    sentLog,                \* the sends on emailChan in order: id, and the poll (0: initial phase)
    filteredLog,            \* ids fetched and dropped by applyFilters
    baselineMissed,         \* some poll page did not hold a non-empty lastMessageId
    fetchFailed,            \* ids whose latest Users.Messages.Get failed
    \* tui.Model
    allEmails, selectedIdx, viewportTopLine, previewScrollPos,
    focusedEmailScrollPos, currentView, width, height,
    statusBarText, statusIsError, statusIsTemp, err, isGmailMonitorDone,
    \* Bubble Tea runtime
    recv,                   \* waitForEmailCmd: waiting, or the message it returned
    tempTimers,             \* the pending tea.Tick timers of clearTempStatusMsg, oldest first
    uiQuit,                 \* tea.Quit was issued
    \* history of the UI
    arrivals                \* NewEmailMsg handled so far

envVars == <<inbox, nextId, removals>>
chanVars == <<emailChan, chanClosed>>
monVars == <<pc, lastMessageId, initialList, newList, newMessagesToProcess, i,
             processedEmail, polls, sentLog, filteredLog, baselineMissed,
             fetchFailed>>
listVars == <<allEmails, selectedIdx, viewportTopLine>>
scrollVars == <<previewScrollPos, focusedEmailScrollPos>>
statusVars == <<statusBarText, statusIsError, statusIsTemp>>
modelVars == <<allEmails, selectedIdx, viewportTopLine, previewScrollPos,
               focusedEmailScrollPos, currentView, width, height,
               statusBarText, statusIsError, statusIsTemp, err, isGmailMonitorDone>>
teaVars == <<recv, tempTimers, uiQuit>>
uiVars == <<modelVars, teaVars, arrivals>>
vars == <<envVars, cancelled, chanVars, monVars, uiVars>>

\* p.Run() has not returned: once it has, main returns and the process, with the
\* monitor goroutine, is gone
Running == ~uiQuit

\* ----------------------------------------------------------- Gmail store
RECURSIVE NewestFirst(_)
NewestFirst(S) ==
    IF S = {} THEN <<>>
    ELSE LET m == CHOOSE x \in S : \A y \in S : y <= x
         IN <<m>> \o NewestFirst(S \ {m})

\* Users.Messages.List(user).MaxResults(n).Q("in:inbox -in:draft").Do()
ListMessages(n) ==
    LET all == NewestFirst(inbox) IN SubSeq(all, 1, Min(n, Len(all)))

\* a message is delivered to the inbox
Arrive ==
    /\ Running
    /\ nextId <= NumMsgs
    /\ inbox' = inbox \cup {nextId}
    /\ nextId' = nextId + 1
    /\ UNCHANGED <<removals, cancelled, chanVars, monVars, uiVars>>

\* a message leaves the inbox (archived or deleted by another client)
Remove ==
    /\ Running
    /\ removals < MaxRemovals
    /\ \E id \in inbox : inbox' = inbox \ {id}
    /\ removals' = removals + 1
    /\ UNCHANGED <<nextId, cancelled, chanVars, monVars, uiVars>>

\* -------------------------------------------------- Client.StartMonitoring
\* time.Sleep(initialDelay)
InitialDelay ==
    /\ Running
    /\ pc = "sleep"
    /\ pc' = "initialList"
    /\ UNCHANGED <<envVars, cancelled, chanVars, lastMessageId, initialList, newList,
                   newMessagesToProcess, i, processedEmail, polls, sentLog,
                   filteredLog, baselineMissed,
                   fetchFailed, uiVars>>

\* a failed initial list call that ends the run
InitialListFailsReturns ==
    /\ Running
    /\ pc = "initialList"
    /\ pc' = "returned"
    /\ UNCHANGED <<envVars, cancelled, chanVars, lastMessageId, initialList, newList,
                   newMessagesToProcess, i, processedEmail, polls, sentLog,
                   filteredLog, baselineMissed,
                   fetchFailed, uiVars>>

\* initialListCall.Do() returns an error
InitialListFails ==
    /\ Running
    /\ pc = "initialList"
    /\ pc' = "ticker"
    /\ UNCHANGED <<envVars, cancelled, chanVars, lastMessageId, initialList, newList,
                   newMessagesToProcess, i, processedEmail, polls, sentLog,
                   filteredLog, baselineMissed,
                   fetchFailed, uiVars>>

\* the initial list call with the baseline left for later
InitialListCallKeepsBaseline ==
    /\ Running
    /\ pc = "initialList"
    /\ LET msgs == ListMessages(initialFetchCount) IN
         IF Len(msgs) = 0
         THEN /\ pc' = "ticker"
              /\ UNCHANGED <<initialList, i>>
         ELSE /\ initialList' = msgs
              /\ i' = Len(msgs) - 1
              /\ pc' = "initialFetch"
    /\ UNCHANGED <<envVars, cancelled, chanVars, lastMessageId, newList,
                   newMessagesToProcess, processedEmail, polls, sentLog,
                   filteredLog, baselineMissed,
                   fetchFailed, uiVars>>

\* initialListCall.Do() succeeds: the baseline is set before the fetch loop
InitialListCall ==
    /\ Running
    /\ pc = "initialList"
    /\ LET msgs == ListMessages(initialFetchCount) IN
         IF Len(msgs) = 0
         THEN /\ pc' = "ticker"
              /\ UNCHANGED <<lastMessageId, initialList, i>>
         ELSE /\ lastMessageId' = msgs[1]
              /\ initialList' = msgs
              /\ i' = Len(msgs) - 1
              /\ pc' = "initialFetch"
    /\ UNCHANGED <<envVars, cancelled, chanVars, newList, newMessagesToProcess,
                   processedEmail, polls, sentLog, filteredLog, baselineMissed,
                   fetchFailed, uiVars>>

\* the end of one iteration of the initial loop: i-- and the loop test
InitialLoopNext ==
    /\ i' = i - 1
    /\ IF i - 1 >= 0
       THEN pc' = "initialFetch" /\ UNCHANGED initialList
       ELSE pc' = "ticker" /\ initialList' = <<>>

\* Users.Messages.Get fails for initialList.Messages[i]: logged, continue
InitialFetchFails ==
    /\ Running
    /\ pc = "initialFetch"
    /\ fetchFailed' = fetchFailed \cup {initialList[i + 1]}
    /\ InitialLoopNext
    /\ UNCHANGED <<envVars, cancelled, chanVars, lastMessageId, newList,
                   newMessagesToProcess, processedEmail, polls, sentLog,
                   filteredLog, baselineMissed, uiVars>>

\* Users.Messages.Get succeeds: parse, filter, go on to the send
InitialFetch ==
    /\ Running
    /\ pc = "initialFetch"
    /\ fetchFailed' = fetchFailed \ {initialList[i + 1]}
    /\ LET email == parseEmailDetails(initialList[i + 1]) IN
         IF applyFilters(email)
         THEN /\ InitialLoopNext
              /\ filteredLog' = filteredLog \cup {email.ID}
              /\ UNCHANGED processedEmail
         ELSE /\ processedEmail' = email.ID
              /\ pc' = "initialSend"
              /\ UNCHANGED <<i, initialList, filteredLog>>
    /\ UNCHANGED <<envVars, cancelled, chanVars, lastMessageId, newList,
                   newMessagesToProcess, polls, sentLog, baselineMissed, uiVars>>

\* case emailChan <- processedEmail
InitialSend ==
    /\ Running
    /\ pc = "initialSend"
    /\ Len(emailChan) < emailChanCap
    /\ emailChan' = Append(emailChan, parseEmailDetails(processedEmail))
    /\ sentLog' = Append(sentLog, [id |-> processedEmail, poll |-> 0])
    /\ processedEmail' = NoId
    /\ InitialLoopNext
    /\ UNCHANGED <<envVars, cancelled, chanClosed, lastMessageId, newList,
                   newMessagesToProcess, polls, filteredLog, baselineMissed,
                   fetchFailed, uiVars>>

\* a cancelled send that gives the message up and goes on to the ticker loop
SendCancelledGoesOn ==
    /\ Running
    /\ pc \in {"initialSend", "pollSend"}
    /\ cancelled
    /\ pc' = "ticker"
    /\ UNCHANGED <<envVars, cancelled, chanVars, lastMessageId, initialList, newList,
                   newMessagesToProcess, i, processedEmail, polls, sentLog,
                   filteredLog, baselineMissed,
                   fetchFailed, uiVars>>

\* case <-ctx.Done() of a send, in either phase: return
SendCancelled ==
    /\ Running
    /\ pc \in {"initialSend", "pollSend"}
    /\ cancelled
    /\ pc' = "returned"
    /\ UNCHANGED <<envVars, cancelled, chanVars, lastMessageId, initialList, newList,
                   newMessagesToProcess, i, processedEmail, polls, sentLog,
                   filteredLog, baselineMissed,
                   fetchFailed, uiVars>>

\* case <-ctx.Done() of the ticker loop: return
TickerCancelled ==
    /\ Running
    /\ pc = "ticker"
    /\ cancelled
    /\ pc' = "returned"
    /\ UNCHANGED <<envVars, cancelled, chanVars, lastMessageId, initialList, newList,
                   newMessagesToProcess, i, processedEmail, polls, sentLog,
                   filteredLog, baselineMissed,
                   fetchFailed, uiVars>>

\* case <-ticker.C, newListCall.Do() returns an error: continue
PollListFails ==
    /\ Running
    /\ pc = "ticker"
    /\ polls < MaxPolls
    /\ polls' = polls + 1
    /\ UNCHANGED <<envVars, cancelled, chanVars, pc, lastMessageId, initialList,
                   newList, newMessagesToProcess, i, processedEmail, sentLog,
                   filteredLog, baselineMissed,
                   fetchFailed, uiVars>>

\* the scan of newList.Messages for lastMessageId: the ids before its first
\* occurrence, or all of them
RECURSIVE ScanFirst(_, _, _)
ScanFirst(msgs, last, k) ==
    IF k > Len(msgs) THEN msgs
    ELSE IF msgs[k] = last THEN SubSeq(msgs, 1, k - 1)
    ELSE ScanFirst(msgs, last, k + 1)

ScanWholePage(msgs, last) == msgs

\* a scan that takes the newest id alone as new
ScanNewestOnly(msgs, last) ==
    IF Len(msgs) > 0 /\ msgs[1] # last THEN <<msgs[1]>> ELSE <<>>

ScanForNew(msgs, last) ==
    IF last = NoId /\ Len(msgs) > 0 THEN msgs
    ELSE IF last # NoId THEN ScanFirst(msgs, last, 1)
    ELSE <<>>

\* the statement after the poll loop
BaselineOldest(msgs, toProcess, last) ==
    IF Len(toProcess) > 0 THEN msgs[Len(msgs)] ELSE last

BaselineAfterPoll(msgs, toProcess, last) ==
    IF Len(toProcess) > 0 THEN msgs[1] ELSE last

\* the end of one iteration of the poll loop: i-- and the loop test
PollLoopNext(k, msgs, toProcess) ==
    /\ i' = k
    /\ pc' = IF k >= 0 THEN "pollFetch" ELSE "pollDone"
    /\ newList' = msgs
    /\ newMessagesToProcess' = toProcess
    /\ UNCHANGED lastMessageId

\* case <-ticker.C, newListCall.Do() succeeds
PollListCall ==
    /\ Running
    /\ pc = "ticker"
    /\ polls < MaxPolls
    /\ polls' = polls + 1
    /\ LET msgs == ListMessages(periodicFetchCount) IN
         IF Len(msgs) = 0
         THEN UNCHANGED <<pc, lastMessageId, newList, newMessagesToProcess, i,
                          baselineMissed>>
         ELSE LET toProcess == ScanForNew(msgs, lastMessageId) IN
              /\ IF Len(toProcess) = 0
                 THEN UNCHANGED <<pc, lastMessageId, newList,
                                  newMessagesToProcess, i>>
                 ELSE PollLoopNext(Len(toProcess) - 1, msgs, toProcess)
              /\ baselineMissed' =
                    (baselineMissed \/
                     (lastMessageId # NoId /\
                      \A k \in 1..Len(msgs) : msgs[k] # lastMessageId))
    /\ UNCHANGED <<envVars, cancelled, chanVars, initialList, processedEmail,
                   sentLog, filteredLog, fetchFailed, uiVars>>

\* after the poll loop: if len(newMessagesToProcess) > 0 { lastMessageId = ... }
PollUpdateBaseline ==
    /\ Running
    /\ pc = "pollDone"
    /\ lastMessageId' = BaselineAfterPoll(newList, newMessagesToProcess, lastMessageId)
    /\ newList' = <<>>
    /\ newMessagesToProcess' = <<>>
    /\ pc' = "ticker"
    /\ UNCHANGED <<envVars, cancelled, chanVars, initialList, i, processedEmail,
                   polls, sentLog, filteredLog, baselineMissed,
                   fetchFailed, uiVars>>

\* Users.Messages.Get fails for newMessagesToProcess[i]: logged, continue
PollFetchFails ==
    /\ Running
    /\ pc = "pollFetch"
    /\ fetchFailed' = fetchFailed \cup {newMessagesToProcess[i + 1]}
    /\ PollLoopNext(i - 1, newList, newMessagesToProcess)
    /\ UNCHANGED <<envVars, cancelled, chanVars, initialList, processedEmail,
                   polls, sentLog, filteredLog, baselineMissed, uiVars>>

PollFetch ==
    /\ Running
    /\ pc = "pollFetch"
    /\ fetchFailed' = fetchFailed \ {newMessagesToProcess[i + 1]}
    /\ LET email == parseEmailDetails(newMessagesToProcess[i + 1]) IN
         IF applyFilters(email)
         THEN /\ PollLoopNext(i - 1, newList, newMessagesToProcess)
              /\ filteredLog' = filteredLog \cup {email.ID}
              /\ UNCHANGED processedEmail
         ELSE /\ processedEmail' = email.ID
              /\ pc' = "pollSend"
              /\ UNCHANGED <<i, lastMessageId, newList, newMessagesToProcess,
                             filteredLog>>
    /\ UNCHANGED <<envVars, cancelled, chanVars, initialList, polls, sentLog,
                   baselineMissed, uiVars>>

\* a send that does not wait for room in the channel
PollSendWithoutRoom ==
    /\ Running
    /\ pc = "pollSend"
    /\ emailChan' = Append(emailChan, parseEmailDetails(processedEmail))
    /\ sentLog' = Append(sentLog, [id |-> processedEmail, poll |-> polls])
    /\ processedEmail' = NoId
    /\ PollLoopNext(i - 1, newList, newMessagesToProcess)
    /\ UNCHANGED <<envVars, cancelled, chanClosed, initialList, polls,
                   filteredLog, baselineMissed,
                   fetchFailed, uiVars>>

PollSend ==
    /\ Running
    /\ pc = "pollSend"
    /\ Len(emailChan) < emailChanCap
    /\ emailChan' = Append(emailChan, parseEmailDetails(processedEmail))
    /\ sentLog' = Append(sentLog, [id |-> processedEmail, poll |-> polls])
    /\ processedEmail' = NoId
    /\ PollLoopNext(i - 1, newList, newMessagesToProcess)
    /\ UNCHANGED <<envVars, cancelled, chanClosed, initialList, polls,
                   filteredLog, baselineMissed,
                   fetchFailed, uiVars>>

\* a close(emailChan) that does not wait for StartMonitoring to return
CloseChannelOnCancel ==
    /\ Running
    /\ cancelled
    /\ ~chanClosed
    /\ chanClosed' = TRUE
    /\ UNCHANGED <<envVars, cancelled, emailChan, pc, lastMessageId, initialList,
                   newList, newMessagesToProcess, i, processedEmail, polls,
                   sentLog, filteredLog, baselineMissed,
                   fetchFailed, uiVars>>

\* main.go: close(emailChan) once StartMonitoring has returned
CloseChannel ==
    /\ Running
    /\ pc = "returned"
    /\ pc' = "closed"
    /\ chanClosed' = TRUE
    /\ UNCHANGED <<envVars, cancelled, emailChan, lastMessageId, initialList,
                   newList, newMessagesToProcess, i, processedEmail, polls,
                   sentLog, filteredLog, baselineMissed,
                   fetchFailed, uiVars>>


\* ------------------------------------------------------------- tui.Model
NoEmail == [ID |-> NoId, InternalDate |-> 0, From |-> <<>>, Subject |-> <<>>]

\* Go's integer division truncates toward zero
GoDiv(a, b) == IF a >= 0 THEN a \div b ELSE -((-a) \div b)

\* statusBarText: the format that was used and the values printed into it
\* (the wall-clock time that setStandardStatus prints is left out)
PlainText(s) ==
    [kind |-> s, monitor |-> "", count |-> 0, hints |-> "", subject |-> <<>>]
StandardTextWatching(done, n, view) ==
    [kind |-> "standard", monitor |-> "Watching",
     count |-> n, hints |-> view, subject |-> <<>>]
StandardText(done, n, view) ==
    [kind |-> "standard",
     monitor |-> IF done THEN "Monitor Off" ELSE "Watching",
     count |-> n, hints |-> view, subject |-> <<>>]
NewMailText(subject) ==
    [kind |-> "New", monitor |-> "", count |-> 0, hints |-> "",
     subject |-> truncate(subject, newStatusSubjectLen)]

Status == [text |-> statusBarText, isError |-> statusIsError, isTemp |-> statusIsTemp]
SetStatus(st) ==
    /\ statusBarText' = st.text
    /\ statusIsError' = st.isError
    /\ statusIsTemp' = st.isTemp

updateStatusBar(text) == [text |-> text, isError |-> FALSE, isTemp |-> FALSE]
updateStatusError(text) == [text |-> text, isError |-> TRUE, isTemp |-> FALSE]
showTemporaryStatus(text) == [text |-> text, isError |-> FALSE, isTemp |-> TRUE]

setStandardStatusKeepsText(st, done, n, view) ==
    [text |-> st.text, isError |-> FALSE, isTemp |-> FALSE]

setStandardStatus(st, done, n, view) ==
    IF st.isTemp THEN st ELSE updateStatusBar(StandardText(done, n, view))

getVisibleEmailListHeightUnclamped(h) ==
    h - statusBarHeight - listTitleRenderedHeight

getVisibleEmailListHeight(h) ==
    Max(h - statusBarHeight - listTitleRenderedHeight, 0)

getNumItemsThatFitInList(h) ==
    Max(getVisibleEmailListHeight(h) \div emailListItemHeight, 0)

\* ------------------------------------------------------------ Model.View
\* contentHeight of View: the rows above the status bar
contentHeight(h) == Max(h - statusBarHeight, 0)

getVisiblePreviewBodyHeight(paneTotalHeight, renderedHeaderHeight) ==
    Max(paneTotalHeight - titleRenderedHeight - renderedHeaderHeight
            - contentBoxVerticalPadding, 0)

getFocusedViewContentRenderHeight(paneTotalHeight) ==
    Max(paneTotalHeight - titleRenderedHeight - contentBoxVerticalPadding, 0)

\* a first line that is the stored offset, whatever the content
StartLineUnclamped(pos, total, display) == Max(pos, 0)

\* startLine of renderPreviewPane for the offset pos, total body lines and
\* display lines for them
previewStartLine(pos, total, display) ==
    LET s0 == IF pos < 0 THEN 0 ELSE pos
        s1 == IF total > display /\ s0 > total - display /\ display > 0
              THEN total - display
              ELSE IF s0 >= total /\ total > 0 THEN total - 1 ELSE s0
    IN IF total = 0 THEN 0 ELSE s1

\* startLine of renderFocusedEmailView, the same statements over again
focusedStartLine(pos, total, display) ==
    LET s0 == IF pos < 0 THEN 0 ELSE pos
        s1 == IF total > display /\ s0 > total - display /\ display > 0
              THEN total - display
              ELSE IF s0 >= total /\ total > 0 THEN total - 1 ELSE s0
    IN IF total = 0 THEN 0 ELSE s1

\* endLine of both
renderEndLine(start, total, display) == Min(start + display, total)

\* fullContentLines of the focused view: the header block and the body under
\* its top margin
focusedContentLines(bodyLines) == focusedHeaderLines + bodyLines

ensureSelectedKeepTop(n, sel, top, h) == top

\* the new viewportTopLine for n emails, selection sel, height h
ensureSelectedVisible(n, sel, top, h) ==
    IF n = 0 THEN 0
    ELSE LET itemsThatFit == getNumItemsThatFitInList(h) IN
         IF itemsThatFit <= 0 THEN sel
         ELSE LET t1 == IF sel < top THEN sel
                        ELSE IF sel >= top + itemsThatFit THEN sel - itemsThatFit + 1
                        ELSE top
                  t2 == IF t1 < 0 THEN 0 ELSE t1
                  maxPossibleViewportTop == Max(n - itemsThatFit, 0)
              IN IF t2 > maxPossibleViewportTop THEN maxPossibleViewportTop ELSE t2

\* sort.SliceStable(allEmails, InternalDate descending), as an insertion sort:
\* e goes before the first element that is less than it
RECURSIVE InsertStable(_, _)
InsertStable(sorted, e) ==
    IF sorted = <<>> THEN <<e>>
    ELSE IF e.InternalDate > Head(sorted).InternalDate THEN <<e>> \o sorted
    ELSE <<Head(sorted)>> \o InsertStable(Tail(sorted), e)

RECURSIVE SortTo(_, _)
SortTo(done, rest) ==
    IF rest = <<>> THEN done ELSE SortTo(InsertStable(done, Head(rest)), Tail(rest))

SortUnstable(s) ==
    IF Len(s) = 0 THEN s ELSE <<s[Len(s)]>> \o SubSeq(s, 1, Len(s) - 1)

SortSliceStable(s) == SortTo(<<>>, s)

\* the first 0-based index of an email with this id, -1 if there is none
RECURSIVE IndexOfID(_, _, _)
IndexOfID(emails, id, k) ==
    IF k > Len(emails) THEN -1
    ELSE IF emails[k].ID = id THEN k - 1
    ELSE IndexOfID(emails, id, k + 1)

SelectedValid(emails, sel) == Len(emails) > 0 /\ sel >= 0 /\ sel < Len(emails)

SelectPastEnd(emails, oldSel, oldID, newID) == Len(emails)

\* a selection that keeps its index
ReselectKeepIndex(emails, oldSel, oldID, newID) == oldSel

\* selectedIdx after the insertion of newID, oldID was selected before
Reselect(emails, oldSel, oldID, newID) ==
    LET found == IF oldID # NoId THEN IndexOfID(emails, oldID, 1) ELSE -1
        s1 == IF found >= 0 THEN found ELSE oldSel
        s2 == IF found < 0 \/ Len(emails) = 1
              THEN (IF Len(emails) > 0 /\ IndexOfID(emails, newID, 1) >= 0
                    THEN IndexOfID(emails, newID, 1) ELSE 0)
              ELSE s1
        s3 == IF s2 >= Len(emails) /\ Len(emails) > 0 THEN Len(emails) - 1 ELSE s2
    IN IF s3 < 0 /\ Len(emails) > 0 THEN 0 ELSE s3

\* listPaneBoundaryX of the mouse handler; int(float64(w) * 0.35) is (w * 35) / 100
\* for the widths used here
listPaneBoundaryX(w) ==
    LET b0 == (w * 35) \div 100
        b1 == IF b0 < minListPaneWidth THEN minListPaneWidth ELSE b0
        b2 == IF b1 > w - minPreviewPaneWidth /\ w > minPreviewPaneWidth
              THEN w - minPreviewPaneWidth ELSE b1
    IN IF b2 < 0 THEN 0 ELSE b2

\* a list pane as wide as the boundary of the mouse handler
actualListPaneWidthAsBoundary(w) == listPaneBoundaryX(w)

\* actualListPaneWidth of View in the dashboard at width w
actualListPaneWidth(w) ==
    LET l0 == (w * 35) \div 100
        l1 == IF l0 < minListPaneWidth THEN minListPaneWidth ELSE l0
        l2 == IF l1 > w - minPreviewPaneWidth /\ w > minPreviewPaneWidth
              THEN w - minPreviewPaneWidth ELSE l1
        l3 == IF l2 < 0 THEN 0 ELSE l2
        l4 == IF l3 > w THEN w ELSE l3
    IN IF w < minListPaneWidth + minPreviewPaneWidth
       THEN IF w < minListPaneWidth THEN w ELSE minListPaneWidth
       ELSE l4

\* actualPreviewPaneWidth of View in the dashboard at width w
actualPreviewPaneWidth(w) ==
    LET l0 == (w * 35) \div 100
        l1 == IF l0 < minListPaneWidth THEN minListPaneWidth ELSE l0
        l2 == IF l1 > w - minPreviewPaneWidth /\ w > minPreviewPaneWidth
              THEN w - minPreviewPaneWidth ELSE l1
        l3 == IF l2 < 0 THEN 0 ELSE l2
        l4 == IF l3 > w THEN w ELSE l3
        p0 == IF w - l4 < 0 THEN 0 ELSE w - l4
    IN IF w < minListPaneWidth + minPreviewPaneWidth
       THEN IF w < minListPaneWidth THEN 0 ELSE w - minListPaneWidth
       ELSE p0

\* len(strings.Split(body, "\n")) of the selected email
SelectedBodyLines == MailBodyLines(allEmails[selectedIdx + 1].ID)

\* Model.View: which of its screens is rendered
View ==
    IF width = 0 \/ height = 0 THEN "Initializing terminal size..."
    ELSE IF err THEN "Application Error"
    ELSE currentView

\* ------------------------------------------------------ inputs of the UI
ScreenSizes == {<<0, 0>>, <<40, 2>>, <<80, 7>>, <<80, 11>>}
Keys == {"ctrl+c", "q", "up", "j", "enter", "K", "J", "esc", "x"}
MouseXs == {5, 25, 60}
LayoutSizes == {<<0, 0>>, <<20, 7>>, <<60, 7>>, <<60, 11>>, <<80, 7>>}
MouseYs == {1, 2, 6, 10}



\* ----------------------------------------------------------- Model.Update
\* a resize that leaves the view as it is
WindowSizeMsgKeepsView ==
    /\ Running
    /\ \E size \in ScreenSizes :
         /\ width' = size[1]
         /\ height' = size[2]
         /\ viewportTopLine' =
              ensureSelectedVisible(Len(allEmails), selectedIdx, viewportTopLine, size[2])
    /\ UNCHANGED <<envVars, cancelled, chanVars, monVars, allEmails, selectedIdx,
                   scrollVars, currentView, statusVars, err, isGmailMonitorDone,
                   teaVars, arrivals>>

\* tea.WindowSizeMsg with one of the given sizes
WindowSizeMsgOf(sizes) ==
    /\ Running
    /\ \E size \in sizes :
         /\ width' = size[1]
         /\ height' = size[2]
         /\ viewportTopLine' =
              ensureSelectedVisible(Len(allEmails), selectedIdx, viewportTopLine, size[2])
         /\ IF currentView = "viewLoading" /\ size[1] > 0
            THEN IF Len(allEmails) > 0 \/ isGmailMonitorDone
                 THEN /\ currentView' = "viewDashboard"
                      /\ SetStatus(setStandardStatus(Status, isGmailMonitorDone,
                                                     Len(allEmails), "viewDashboard"))
                 ELSE /\ SetStatus(updateStatusBar(PlainText("Waiting for initial emails...")))
                      /\ UNCHANGED currentView
            ELSE UNCHANGED <<currentView, statusVars>>
    /\ UNCHANGED <<envVars, cancelled, chanVars, monVars, allEmails, selectedIdx,
                   scrollVars, err, isGmailMonitorDone, teaVars, arrivals>>

WindowSizeMsg == WindowSizeMsgOf(ScreenSizes)

\* the same with the widths at which the panes are laid out differently
WindowSizeMsgLayout == WindowSizeMsgOf(LayoutSizes)

\* tea.MouseMsg, tea.MouseWheelUp at column x
MouseWheelUpAt(x) ==
    /\ Running
    /\   IF currentView = "viewDashboard"
         THEN IF x < listPaneBoundaryX(width)
              THEN /\ viewportTopLine' =
                        IF viewportTopLine > 0 THEN viewportTopLine - 1 ELSE viewportTopLine
                   /\ UNCHANGED scrollVars
              ELSE /\ previewScrollPos' =
                        IF previewScrollPos > 0 THEN previewScrollPos - 1 ELSE previewScrollPos
                   /\ UNCHANGED <<viewportTopLine, focusedEmailScrollPos>>
         ELSE IF currentView = "viewFocusedEmail"
              THEN /\ focusedEmailScrollPos' =
                        IF focusedEmailScrollPos > 0 THEN focusedEmailScrollPos - 1
                        ELSE focusedEmailScrollPos
                   /\ UNCHANGED <<viewportTopLine, previewScrollPos>>
              ELSE UNCHANGED <<viewportTopLine, scrollVars>>
    /\ UNCHANGED <<envVars, cancelled, chanVars, monVars, allEmails, selectedIdx,
                   currentView, width, height, statusVars, err, isGmailMonitorDone,
                   teaVars, arrivals>>

MouseWheelUp == \E x \in MouseXs : MouseWheelUpAt(x)

\* tea.MouseMsg, tea.MouseWheelDown at column x
MouseWheelDownAt(x) ==
    /\ Running
    /\ currentView = "viewFocusedEmail" => focusedEmailScrollPos < MaxFocusScroll
    /\   IF currentView = "viewDashboard"
         THEN IF x < listPaneBoundaryX(width)
              THEN LET itemsThatFit == getNumItemsThatFitInList(height) IN
                   /\ viewportTopLine' =
                        IF Len(allEmails) > itemsThatFit
                           /\ viewportTopLine < Len(allEmails) - itemsThatFit
                        THEN viewportTopLine + 1 ELSE viewportTopLine
                   /\ UNCHANGED scrollVars
              ELSE /\ previewScrollPos' =
                        IF SelectedValid(allEmails, selectedIdx)
                           /\ previewScrollPos < SelectedBodyLines - 1
                        THEN previewScrollPos + 1 ELSE previewScrollPos
                   /\ UNCHANGED <<viewportTopLine, focusedEmailScrollPos>>
         ELSE IF currentView = "viewFocusedEmail"
              THEN /\ focusedEmailScrollPos' = focusedEmailScrollPos + 1
                   /\ UNCHANGED <<viewportTopLine, previewScrollPos>>
              ELSE UNCHANGED <<viewportTopLine, scrollVars>>
    /\ UNCHANGED <<envVars, cancelled, chanVars, monVars, allEmails, selectedIdx,
                   currentView, width, height, statusVars, err, isGmailMonitorDone,
                   teaVars, arrivals>>

MouseWheelDown == \E x \in MouseXs : MouseWheelDownAt(x)

\* a click that counts the rows from the first message, not from the first one shown
MouseLeftFromFirst(x, y) ==
    /\ Running
    /\   LET listStartY == listTitleRenderedHeight
             clickedItemIndex == GoDiv(y - listStartY, emailListItemHeight)
             actualClickedIdx == clickedItemIndex
         IN IF /\ currentView = "viewDashboard"
               /\ x < listPaneBoundaryX(width)
               /\ actualClickedIdx >= 0
               /\ actualClickedIdx < Len(allEmails)
               /\ selectedIdx # actualClickedIdx
            THEN /\ selectedIdx' = actualClickedIdx
                 /\ previewScrollPos' = 0
                 /\ focusedEmailScrollPos' = 0
                 /\ viewportTopLine' =
                      ensureSelectedVisible(Len(allEmails), actualClickedIdx,
                                            viewportTopLine, height)
                 /\ SetStatus(setStandardStatus(Status, isGmailMonitorDone,
                                                Len(allEmails), currentView))
            ELSE UNCHANGED <<selectedIdx, scrollVars, viewportTopLine, statusVars>>
    /\ UNCHANGED <<envVars, cancelled, chanVars, monVars, allEmails, currentView,
                   width, height, err, isGmailMonitorDone, teaVars, arrivals>>

\* tea.MouseMsg, tea.MouseLeft at column x and row y: click to select
MouseLeftAt(x, y) ==
    /\ Running
    /\   LET listStartY == listTitleRenderedHeight
             clickedItemIndex == GoDiv(y - listStartY, emailListItemHeight)
             actualClickedIdx == viewportTopLine + clickedItemIndex
         IN IF /\ currentView = "viewDashboard"
               /\ x < listPaneBoundaryX(width)
               /\ actualClickedIdx >= 0
               /\ actualClickedIdx < Len(allEmails)
               /\ selectedIdx # actualClickedIdx
            THEN /\ selectedIdx' = actualClickedIdx
                 /\ previewScrollPos' = 0
                 /\ focusedEmailScrollPos' = 0
                 /\ viewportTopLine' =
                      ensureSelectedVisible(Len(allEmails), actualClickedIdx,
                                            viewportTopLine, height)
                 /\ SetStatus(setStandardStatus(Status, isGmailMonitorDone,
                                                Len(allEmails), currentView))
            ELSE UNCHANGED <<selectedIdx, scrollVars, viewportTopLine, statusVars>>
    /\ UNCHANGED <<envVars, cancelled, chanVars, monVars, allEmails, currentView,
                   width, height, err, isGmailMonitorDone, teaVars, arrivals>>

MouseLeft == \E x \in MouseXs, y \in MouseYs : MouseLeftAt(x, y)

\* a quit that the loading view does not take
KeyQuitOutsideLoading ==
    /\ Running
    /\ currentView \in {"viewDashboard", "viewFocusedEmail"}
    /\ SetStatus(updateStatusBar(PlainText("Quitting...")))
    /\ uiQuit' = TRUE
    /\ cancelled' = TRUE
    /\ UNCHANGED <<envVars, chanVars, monVars, listVars, scrollVars, currentView,
                   width, height, err, isGmailMonitorDone, recv,
                   tempTimers, arrivals>>

\* tea.KeyMsg "ctrl+c", "q", a case of each of the three views: tea.Quit; main
\* returns and its deferred cancelApp() runs
KeyQuit ==
    /\ Running
    /\ currentView \in {"viewLoading", "viewDashboard", "viewFocusedEmail"}
    /\ SetStatus(updateStatusBar(PlainText("Quitting...")))
    /\ uiQuit' = TRUE
    /\ cancelled' = TRUE
    /\ UNCHANGED <<envVars, chanVars, monVars, listVars, scrollVars, currentView,
                   width, height, err, isGmailMonitorDone, recv,
                   tempTimers, arrivals>>

\* the dashboard's keys with an enter that does not look at the selection
KeyDashboardEnterAlways ==
    /\ Running
    /\ currentView = "viewDashboard"
    /\ \E key \in Keys \ {"ctrl+c", "q"} :
         CASE key \in {"up", "k"} ->
                IF selectedIdx > 0
                THEN /\ selectedIdx' = selectedIdx - 1
                     /\ viewportTopLine' =
                          ensureSelectedVisible(Len(allEmails), selectedIdx - 1,
                                                viewportTopLine, height)
                     /\ previewScrollPos' = 0
                     /\ focusedEmailScrollPos' = 0
                     /\ UNCHANGED <<currentView, statusVars>>
                ELSE UNCHANGED <<selectedIdx, viewportTopLine, scrollVars,
                                 currentView, statusVars>>
           [] key \in {"down", "j"} ->
                IF selectedIdx < Len(allEmails) - 1
                THEN /\ selectedIdx' = selectedIdx + 1
                     /\ viewportTopLine' =
                          ensureSelectedVisible(Len(allEmails), selectedIdx + 1,
                                                viewportTopLine, height)
                     /\ previewScrollPos' = 0
                     /\ focusedEmailScrollPos' = 0
                     /\ UNCHANGED <<currentView, statusVars>>
                ELSE UNCHANGED <<selectedIdx, viewportTopLine, scrollVars,
                                 currentView, statusVars>>
           [] key = "enter" ->
                IF TRUE
                THEN /\ currentView' = "viewFocusedEmail"
                     /\ focusedEmailScrollPos' = 0
                     /\ SetStatus(setStandardStatus(Status, isGmailMonitorDone,
                                                    Len(allEmails), "viewFocusedEmail"))
                     /\ UNCHANGED <<selectedIdx, viewportTopLine, previewScrollPos>>
                ELSE UNCHANGED <<selectedIdx, viewportTopLine, scrollVars,
                                 currentView, statusVars>>
           [] key = "K" ->
                /\ previewScrollPos' =
                     IF previewScrollPos > 0 THEN previewScrollPos - 1 ELSE previewScrollPos
                /\ UNCHANGED <<selectedIdx, viewportTopLine, focusedEmailScrollPos,
                               currentView, statusVars>>
           [] key = "J" ->
                /\ previewScrollPos' =
                     IF SelectedValid(allEmails, selectedIdx)
                        /\ previewScrollPos < SelectedBodyLines - 1
                     THEN previewScrollPos + 1 ELSE previewScrollPos
                /\ UNCHANGED <<selectedIdx, viewportTopLine, focusedEmailScrollPos,
                               currentView, statusVars>>
           [] OTHER ->
                UNCHANGED <<selectedIdx, viewportTopLine, scrollVars,
                            currentView, statusVars>>
    /\ UNCHANGED <<envVars, cancelled, chanVars, monVars, allEmails, width, height,
                   err, isGmailMonitorDone, teaVars, arrivals>>

\* tea.KeyMsg in viewDashboard, every key but the quit keys
KeyDashboard ==
    /\ Running
    /\ currentView = "viewDashboard"
    /\ \E key \in Keys \ {"ctrl+c", "q"} :
         CASE key \in {"up", "k"} ->
                IF selectedIdx > 0
                THEN /\ selectedIdx' = selectedIdx - 1
                     /\ viewportTopLine' =
                          ensureSelectedVisible(Len(allEmails), selectedIdx - 1,
                                                viewportTopLine, height)
                     /\ previewScrollPos' = 0
                     /\ focusedEmailScrollPos' = 0
                     /\ UNCHANGED <<currentView, statusVars>>
                ELSE UNCHANGED <<selectedIdx, viewportTopLine, scrollVars,
                                 currentView, statusVars>>
           [] key \in {"down", "j"} ->
                IF selectedIdx < Len(allEmails) - 1
                THEN /\ selectedIdx' = selectedIdx + 1
                     /\ viewportTopLine' =
                          ensureSelectedVisible(Len(allEmails), selectedIdx + 1,
                                                viewportTopLine, height)
                     /\ previewScrollPos' = 0
                     /\ focusedEmailScrollPos' = 0
                     /\ UNCHANGED <<currentView, statusVars>>
                ELSE UNCHANGED <<selectedIdx, viewportTopLine, scrollVars,
                                 currentView, statusVars>>
           [] key = "enter" ->
                IF SelectedValid(allEmails, selectedIdx)
                THEN /\ currentView' = "viewFocusedEmail"
                     /\ focusedEmailScrollPos' = 0
                     /\ SetStatus(setStandardStatus(Status, isGmailMonitorDone,
                                                    Len(allEmails), "viewFocusedEmail"))
                     /\ UNCHANGED <<selectedIdx, viewportTopLine, previewScrollPos>>
                ELSE UNCHANGED <<selectedIdx, viewportTopLine, scrollVars,
                                 currentView, statusVars>>
           [] key = "K" ->
                /\ previewScrollPos' =
                     IF previewScrollPos > 0 THEN previewScrollPos - 1 ELSE previewScrollPos
                /\ UNCHANGED <<selectedIdx, viewportTopLine, focusedEmailScrollPos,
                               currentView, statusVars>>
           [] key = "J" ->
                /\ previewScrollPos' =
                     IF SelectedValid(allEmails, selectedIdx)
                        /\ previewScrollPos < SelectedBodyLines - 1
                     THEN previewScrollPos + 1 ELSE previewScrollPos
                /\ UNCHANGED <<selectedIdx, viewportTopLine, focusedEmailScrollPos,
                               currentView, statusVars>>
           [] OTHER ->
                UNCHANGED <<selectedIdx, viewportTopLine, scrollVars,
                            currentView, statusVars>>
    /\ UNCHANGED <<envVars, cancelled, chanVars, monVars, allEmails, width, height,
                   err, isGmailMonitorDone, teaVars, arrivals>>

\* the focused view's keys with an esc that takes the view back to its first line
KeyFocusedEscResets ==
    /\ Running
    /\ currentView = "viewFocusedEmail"
    /\ \E key \in Keys \ {"ctrl+c", "q"} :
         CASE key = "esc" ->
                /\ currentView' = "viewDashboard"
                /\ SetStatus(setStandardStatus(Status, isGmailMonitorDone,
                                               Len(allEmails), "viewDashboard"))
                /\ focusedEmailScrollPos' = 0
           [] key \in {"up", "k"} ->
                /\ focusedEmailScrollPos' =
                     IF focusedEmailScrollPos > 0 THEN focusedEmailScrollPos - 1
                     ELSE focusedEmailScrollPos
                /\ UNCHANGED <<currentView, statusVars>>
           [] key \in {"down", "j"} ->
                /\ focusedEmailScrollPos < MaxFocusScroll
                /\ focusedEmailScrollPos' = focusedEmailScrollPos + 1
                /\ UNCHANGED <<currentView, statusVars>>
           [] OTHER ->
                UNCHANGED <<focusedEmailScrollPos, currentView, statusVars>>
    /\ UNCHANGED <<envVars, cancelled, chanVars, monVars, listVars, previewScrollPos,
                   width, height, err, isGmailMonitorDone, teaVars, arrivals>>

\* tea.KeyMsg in viewFocusedEmail, every key but the quit keys
KeyFocused ==
    /\ Running
    /\ currentView = "viewFocusedEmail"
    /\ \E key \in Keys \ {"ctrl+c", "q"} :
         CASE key = "esc" ->
                /\ currentView' = "viewDashboard"
                /\ SetStatus(setStandardStatus(Status, isGmailMonitorDone,
                                               Len(allEmails), "viewDashboard"))
                /\ UNCHANGED focusedEmailScrollPos
           [] key \in {"up", "k"} ->
                /\ focusedEmailScrollPos' =
                     IF focusedEmailScrollPos > 0 THEN focusedEmailScrollPos - 1
                     ELSE focusedEmailScrollPos
                /\ UNCHANGED <<currentView, statusVars>>
           [] key \in {"down", "j"} ->
                /\ focusedEmailScrollPos < MaxFocusScroll
                /\ focusedEmailScrollPos' = focusedEmailScrollPos + 1
                /\ UNCHANGED <<currentView, statusVars>>
           [] OTHER ->
                UNCHANGED <<focusedEmailScrollPos, currentView, statusVars>>
    /\ UNCHANGED <<envVars, cancelled, chanVars, monVars, listVars, previewScrollPos,
                   width, height, err, isGmailMonitorDone, teaVars, arrivals>>

\* a receive that takes the message buffered last
WaitForEmailNewest ==
    /\ Running
    /\ recv.st = "waiting"
    /\ IF Len(emailChan) > 0
       THEN /\ recv' = [st |-> "NewEmailMsg", email |-> emailChan[Len(emailChan)]]
            /\ emailChan' = SubSeq(emailChan, 1, Len(emailChan) - 1)
       ELSE /\ chanClosed
            /\ recv' = [st |-> "EmailMonitorStoppedMsg", email |-> NoEmail]
            /\ UNCHANGED emailChan
    /\ UNCHANGED <<envVars, cancelled, chanClosed, monVars, modelVars, tempTimers,
                   uiQuit, arrivals>>

\* waitForEmailCmd: the receive from emailChan
WaitForEmail ==
    /\ Running
    /\ recv.st = "waiting"
    /\ IF Len(emailChan) > 0
       THEN /\ recv' = [st |-> "NewEmailMsg", email |-> Head(emailChan)]
            /\ emailChan' = Tail(emailChan)
       ELSE /\ chanClosed
            /\ recv' = [st |-> "EmailMonitorStoppedMsg", email |-> NoEmail]
            /\ UNCHANGED emailChan
    /\ UNCHANGED <<envVars, cancelled, chanClosed, monVars, modelVars, tempTimers,
                   uiQuit, arrivals>>

\* an insertion that takes both panes back to their first line
NewEmailMsgResetsScroll ==
    /\ Running
    /\ recv.st = "NewEmailMsg"
    /\ LET newEmail == [ID |-> recv.email.ID,
                        InternalDate |-> recv.email.InternalDate,
                        From |-> recv.email.From,
                        Subject |-> recv.email.Subject,
                        arrival |-> arrivals + 1]
           oldSelectedEmailID ==
               IF SelectedValid(allEmails, selectedIdx)
               THEN allEmails[selectedIdx + 1].ID ELSE NoId
           sorted == SortSliceStable(Append(allEmails, newEmail))
           sel == Reselect(sorted, selectedIdx, oldSelectedEmailID, newEmail.ID)
       IN /\ allEmails' = sorted
          /\ selectedIdx' = sel
          /\ IF currentView = "viewLoading" /\ width > 0
             THEN /\ currentView' = "viewDashboard"
                  /\ SetStatus(setStandardStatus(Status, isGmailMonitorDone,
                                                 Len(sorted), "viewDashboard"))
                  /\ UNCHANGED tempTimers
             ELSE /\ SetStatus(showTemporaryStatus(NewMailText(newEmail.Subject)))
                  /\ tempTimers' = Append(tempTimers,
                         [after |-> tempStatusDuration, of |-> arrivals + 1])
                  /\ UNCHANGED currentView
          /\ viewportTopLine' =
               ensureSelectedVisible(Len(sorted), sel, viewportTopLine, height)
    /\ arrivals' = arrivals + 1
    /\ recv' = [st |-> "waiting", email |-> NoEmail]
    /\ previewScrollPos' = 0
    /\ focusedEmailScrollPos' = 0
    /\ UNCHANGED <<envVars, cancelled, chanVars, monVars, width, height,
                   err, isGmailMonitorDone, uiQuit>>

\* NewEmailMsg
NewEmailMsg ==
    /\ Running
    /\ recv.st = "NewEmailMsg"
    /\ LET newEmail == [ID |-> recv.email.ID,
                        InternalDate |-> recv.email.InternalDate,
                        From |-> recv.email.From,
                        Subject |-> recv.email.Subject,
                        arrival |-> arrivals + 1]
           oldSelectedEmailID ==
               IF SelectedValid(allEmails, selectedIdx)
               THEN allEmails[selectedIdx + 1].ID ELSE NoId
           sorted == SortSliceStable(Append(allEmails, newEmail))
           sel == Reselect(sorted, selectedIdx, oldSelectedEmailID, newEmail.ID)
       IN /\ allEmails' = sorted
          /\ selectedIdx' = sel
          /\ IF currentView = "viewLoading" /\ width > 0
             THEN /\ currentView' = "viewDashboard"
                  /\ SetStatus(setStandardStatus(Status, isGmailMonitorDone,
                                                 Len(sorted), "viewDashboard"))
                  /\ UNCHANGED tempTimers
             ELSE /\ SetStatus(showTemporaryStatus(NewMailText(newEmail.Subject)))
                  /\ tempTimers' = Append(tempTimers,
                         [after |-> tempStatusDuration, of |-> arrivals + 1])
                  /\ UNCHANGED currentView
          /\ viewportTopLine' =
               ensureSelectedVisible(Len(sorted), sel, viewportTopLine, height)
    /\ arrivals' = arrivals + 1
    /\ recv' = [st |-> "waiting", email |-> NoEmail]
    /\ UNCHANGED <<envVars, cancelled, chanVars, monVars, scrollVars, width, height,
                   err, isGmailMonitorDone, uiQuit>>

\* an EmailMonitorStoppedMsg handler that issues waitForEmailCmd again
EmailMonitorStoppedMsgWaitsAgain ==
    /\ Running
    /\ recv.st = "EmailMonitorStoppedMsg"
    /\ recv' = [st |-> "waiting", email |-> NoEmail]
    /\ isGmailMonitorDone' = TRUE
    /\ IF currentView = "viewLoading"
       THEN /\ currentView' = "viewDashboard"
            /\ SetStatus(updateStatusBar(PlainText(
                   "Email monitoring stopped. No new emails will be fetched.")))
       ELSE /\ UNCHANGED currentView
            /\ IF ~statusIsTemp
               THEN SetStatus(setStandardStatus(Status, TRUE, Len(allEmails), currentView))
               ELSE UNCHANGED statusVars
    /\ UNCHANGED <<envVars, cancelled, chanVars, monVars, listVars, scrollVars,
                   width, height, err, tempTimers, uiQuit, arrivals>>

\* EmailMonitorStoppedMsg
EmailMonitorStoppedMsg ==
    /\ Running
    /\ recv.st = "EmailMonitorStoppedMsg"
    /\ recv' = [st |-> "none", email |-> NoEmail]
    /\ isGmailMonitorDone' = TRUE
    /\ IF currentView = "viewLoading"
       THEN /\ currentView' = "viewDashboard"
            /\ SetStatus(updateStatusBar(PlainText(
                   "Email monitoring stopped. No new emails will be fetched.")))
       ELSE /\ UNCHANGED currentView
            /\ IF ~statusIsTemp
               THEN SetStatus(setStandardStatus(Status, TRUE, Len(allEmails), currentView))
               ELSE UNCHANGED statusVars
    /\ UNCHANGED <<envVars, cancelled, chanVars, monVars, listVars, scrollVars,
                   width, height, err, tempTimers, uiQuit, arrivals>>

\* ErrorMsg
ErrorMsg ==
    /\ Running
    /\ err' = TRUE
    /\ SetStatus(updateStatusError(PlainText("Error")))
    /\ UNCHANGED <<envVars, cancelled, chanVars, monVars, listVars, scrollVars,
                   currentView, width, height, isGmailMonitorDone, teaVars, arrivals>>

\* StatusTickMsg: the statusTickCmd timer, re-armed by every tick, has run out
StatusTickMsg ==
    /\ Running
    /\ IF ~statusIsTemp /\ currentView # "viewLoading"
       THEN SetStatus(setStandardStatus(Status, isGmailMonitorDone,
                                        Len(allEmails), currentView))
       ELSE UNCHANGED statusVars
    /\ UNCHANGED <<envVars, cancelled, chanVars, monVars, listVars, scrollVars,
                   currentView, width, height, err, isGmailMonitorDone, recv,
                   tempTimers, uiQuit, arrivals>>

\* a clearTempStatusMsg that puts the standard status back whatever is shown
ClearTempStatusAlways ==
    /\ Running
    /\ tempTimers # <<>>
    /\ tempTimers' = Tail(tempTimers)
    /\ SetStatus(setStandardStatus(
           [text |-> statusBarText, isError |-> statusIsError, isTemp |-> FALSE],
           isGmailMonitorDone, Len(allEmails), currentView))
    /\ UNCHANGED <<envVars, cancelled, chanVars, monVars, listVars, scrollVars,
                   currentView, width, height, err, isGmailMonitorDone, recv,
                   uiQuit, arrivals>>

\* clearTempStatusMsg: the oldest pending timer of showTemporaryStatus has run out
\* (all run for the same duration, so they run out in the order they were set)
ClearTempStatusMsg ==
    /\ Running
    /\ tempTimers # <<>>
    /\ tempTimers' = Tail(tempTimers)
    /\ IF statusIsTemp
       THEN SetStatus(setStandardStatus(
                [text |-> statusBarText, isError |-> statusIsError, isTemp |-> FALSE],
                isGmailMonitorDone, Len(allEmails), currentView))
       ELSE UNCHANGED statusVars
    /\ UNCHANGED <<envVars, cancelled, chanVars, monVars, listVars, scrollVars,
                   currentView, width, height, err, isGmailMonitorDone, recv,
                   uiQuit, arrivals>>

\* main.go, the signal goroutine: SIGINT or SIGTERM arrives, cancelApp()
SignalCancel ==
    /\ Running
    /\ ~cancelled
    /\ cancelled' = TRUE
    /\ UNCHANGED <<envVars, chanVars, monVars, uiVars>>

\* main.go, the signal goroutine: p.Quit() after cancelApp()
SignalQuit ==
    /\ Running
    /\ cancelled
    /\ uiQuit' = TRUE
    /\ UNCHANGED <<envVars, cancelled, chanVars, monVars, modelVars, recv,
                   tempTimers, arrivals>>

\* ------------------------------------------------------- specification
Init ==
    /\ inbox = {} /\ nextId = 1 /\ removals = 0
    /\ cancelled = FALSE
    /\ emailChan = <<>> /\ chanClosed = FALSE
    /\ pc = "sleep" /\ lastMessageId = NoId
    /\ initialList = <<>> /\ newList = <<>> /\ newMessagesToProcess = <<>>
    /\ i = -1 /\ processedEmail = NoId /\ polls = 0
    /\ sentLog = <<>> /\ filteredLog = {} /\ baselineMissed = FALSE
    /\ fetchFailed = {}
    /\ allEmails = <<>> /\ selectedIdx = 0 /\ viewportTopLine = 0
    /\ previewScrollPos = 0 /\ focusedEmailScrollPos = 0
    /\ currentView = "viewLoading" /\ width = 0 /\ height = 0
    /\ statusBarText = PlainText("Initializing, connecting to Gmail...")
    /\ statusIsError = FALSE /\ statusIsTemp = FALSE
    /\ err = FALSE /\ isGmailMonitorDone = FALSE
    /\ recv = [st |-> "waiting", email |-> NoEmail]
    /\ tempTimers = <<>>
    /\ uiQuit = FALSE
    /\ arrivals = 0

Gmail == Arrive \/ Remove

Monitor ==
    \/ InitialDelay \/ InitialListFails \/ InitialListCall
    \/ InitialFetchFails \/ InitialFetch \/ InitialSend
    \/ SendCancelled \/ TickerCancelled
    \/ PollListFails \/ PollListCall \/ PollFetchFails \/ PollFetch \/ PollSend
    \/ PollUpdateBaseline \/ CloseChannel

Receiver == WaitForEmail \/ NewEmailMsg \/ EmailMonitorStoppedMsg

User ==
    \/ WindowSizeMsg \/ MouseWheelUp \/ MouseWheelDown \/ MouseLeft
    \/ KeyQuit \/ KeyDashboard \/ KeyFocused \/ ErrorMsg

Timers == StatusTickMsg \/ ClearTempStatusMsg

Signal == SignalCancel \/ SignalQuit

Next == Gmail \/ Monitor \/ Receiver \/ User \/ Timers \/ Signal

Spec == Init /\ [][Next]_vars


\* The same program started on an inbox that already holds the first k messages.
InitStocked ==
    /\ \E k \in 0..NumMsgs : inbox = 1..k /\ nextId = k + 1
    /\ removals = 0
    /\ cancelled = FALSE
    /\ emailChan = <<>> /\ chanClosed = FALSE
    /\ pc = "sleep" /\ lastMessageId = NoId
    /\ initialList = <<>> /\ newList = <<>> /\ newMessagesToProcess = <<>>
    /\ i = -1 /\ processedEmail = NoId /\ polls = 0
    /\ sentLog = <<>> /\ filteredLog = {} /\ baselineMissed = FALSE
    /\ fetchFailed = {}
    /\ allEmails = <<>> /\ selectedIdx = 0 /\ viewportTopLine = 0
    /\ previewScrollPos = 0 /\ focusedEmailScrollPos = 0
    /\ currentView = "viewLoading" /\ width = 0 /\ height = 0
    /\ statusBarText = PlainText("Initializing, connecting to Gmail...")
    /\ statusIsError = FALSE /\ statusIsTemp = FALSE
    /\ err = FALSE /\ isGmailMonitorDone = FALSE
    /\ recv = [st |-> "waiting", email |-> NoEmail]
    /\ tempTimers = <<>>
    /\ uiQuit = FALSE
    /\ arrivals = 0

\* The monitor and its channel, with a UI that only receives.
NextMonitor == Gmail \/ Monitor \/ Receiver \/ Signal
SpecMonitor == Init /\ [][NextMonitor]_vars

\* The same with the scheduling of the program: the monitor goroutine and the
\* Bubble Tea loop keep running while they can, and the signal goroutine goes on
\* from cancelApp() to p.Quit().
SpecMonitorFair ==
    /\ SpecMonitor
    /\ WF_vars(Monitor)
    /\ WF_vars(Receiver)
    /\ WF_vars(SignalQuit)

\* The UI with every message it handles, fed by a monitor whose calls succeed.
MonitorOK ==
    \/ InitialDelay \/ InitialListCall \/ InitialFetch \/ InitialSend
    \/ PollListCall \/ PollFetch \/ PollSend \/ PollUpdateBaseline

NextUI ==
    \/ Remove \/ MonitorOK \/ WaitForEmail \/ NewEmailMsg
    \/ WindowSizeMsg \/ MouseWheelUp \/ MouseWheelDown \/ MouseLeft
    \/ KeyDashboard \/ KeyFocused \/ Timers

SpecUI == InitStocked /\ [][NextUI]_vars

\* the newest id of the latest page listed, NoId before there is one
ListHead ==
    IF pc \in {"pollFetch", "pollSend", "pollDone"} THEN newList[1] ELSE lastMessageId

\* a message arrives in a mailbox that receives no more than a page between two
\* list calls
ArriveSlowly ==
    /\ Cardinality({id \in inbox : id > ListHead}) <
          (IF pc \in {"sleep", "initialList"} THEN initialFetchCount
                                               ELSE periodicFetchCount)
    /\ Arrive

\* The monitor whose calls succeed, on a mailbox that only grows and never by more
\* than a page between two list calls, with a UI that only receives; the monitor
\* goroutine and the UI's receive command keep running.
NextGrowing == ArriveSlowly \/ MonitorOK \/ WaitForEmail \/ NewEmailMsg

SpecGrowing ==
    /\ Init /\ [][NextGrowing]_vars
    /\ WF_vars(MonitorOK)
    /\ WF_vars(WaitForEmail \/ NewEmailMsg)

\* every event of the UI, with the monitor's cancellation and the closing of the
\* channel, over a mailbox that does not change
NextEvents ==
    \/ InitialDelay \/ InitialListCall \/ InitialFetch \/ InitialSend
    \/ PollListCall
    \/ SendCancelled \/ TickerCancelled \/ CloseChannel
    \/ Receiver \/ User \/ Timers \/ Signal

SpecEvents == InitStocked /\ [][NextEvents]_vars

\* the dashboard and its mouse at the widths where the panes are laid out
\* differently, over a mailbox that does not change
NextLayout ==
    \/ InitialDelay \/ InitialListCall \/ InitialFetch \/ InitialSend
    \/ PollListCall \/ WaitForEmail \/ NewEmailMsg
    \/ WindowSizeMsgLayout \/ MouseWheelUp \/ MouseWheelDown \/ MouseLeft
    \/ KeyDashboard \/ KeyFocused

SpecLayout == InitStocked /\ [][NextLayout]_vars

\* ================================================================ properties

\* C1: allEmails is ordered by InternalDate, largest first, and entries of equal
\* InternalDate stand in the order in which their NewEmailMsg were handled.
C1_SortedNewestFirst ==
    \A a, b \in 1..Len(allEmails) :
        a < b =>
            \/ allEmails[a].InternalDate > allEmails[b].InternalDate
            \/ /\ allEmails[a].InternalDate = allEmails[b].InternalDate
               /\ allEmails[a].arrival < allEmails[b].arrival

\* a list of three with a tie, whose last arrival was not put first
C1_Witness ==
    /\ Len(allEmails) >= 3
    /\ \E a, b \in 1..Len(allEmails) :
           a < b /\ allEmails[a].InternalDate = allEmails[b].InternalDate
    /\ \E a, b \in 1..Len(allEmails) :
           allEmails[a].InternalDate > allEmails[b].InternalDate
    /\ allEmails[1].arrival # arrivals

\* C2: as long as every poll page held the stored baseline, no id has been
\* sent on emailChan twice.
C2_NoIdSentTwice ==
    ~baselineMissed =>
        \A a, b \in 1..Len(sentLog) : a # b => sentLog[a].id # sentLog[b].id

\* a poll that found its baseline in the page has sent a new id after the
\* sends of the initial phase
C2_Witness ==
    /\ ~baselineMissed
    /\ \E a, b \in 1..Len(sentLog) : sentLog[a].poll = 0 /\ sentLog[b].poll > 0

\* C3: no two entries of allEmails have the same ID.
C3_NoTwoEntriesWithOneID ==
    \A a, b \in 1..Len(allEmails) : a # b => allEmails[a].ID # allEmails[b].ID

\* a NewEmailMsg is about to be handled whose ID an entry of allEmails has
C3_Witness ==
    /\ recv.st = "NewEmailMsg"
    /\ \E a \in 1..Len(allEmails) : allEmails[a].ID = recv.email.ID

\* C4: lastMessageId starts empty; a step that changes it sets it to the first
\* id of a list result that is not empty (the initial list call's, or the
\* poll's), so never to the empty id; a list call or a fetch that fails, and a
\* list result that is empty, leave it as it is.
C4_BaselineIsNewestOfAList ==
    /\ lastMessageId = NoId
    /\ [][ /\ lastMessageId' # lastMessageId =>
                /\ lastMessageId' # NoId
                /\ \/ /\ pc = "initialList"
                      /\ Len(ListMessages(initialFetchCount)) > 0
                      /\ lastMessageId' = ListMessages(initialFetchCount)[1]
                   \/ /\ pc = "pollDone"
                      /\ Len(newList) > 0
                      /\ lastMessageId' = newList[1]
           /\ (InitialListFails \/ PollListFails \/ InitialFetchFails \/ PollFetchFails)
                  => lastMessageId' = lastMessageId
           /\ (pc = "ticker" /\ polls' # polls /\ ListMessages(periodicFetchCount) = <<>>)
                  => lastMessageId' = lastMessageId
         ]_vars

\* a poll has replaced the baseline by the id it has sent last
C4_Witness ==
    /\ pc = "ticker"
    /\ lastMessageId # NoId
    /\ Len(sentLog) >= 2
    /\ sentLog[Len(sentLog)].poll > 0
    /\ sentLog[Len(sentLog)].id = lastMessageId
    /\ sentLog[1].poll = 0

\* C5: whenever allEmails is not empty, selectedIdx is an index of it.
C5_SelectedIdxInRange ==
    Len(allEmails) > 0 => selectedIdx >= 0 /\ selectedIdx < Len(allEmails)

\* the last of several entries is selected, after the monitor has stopped and an
\* error has been reported
C5_Witness ==
    /\ Len(allEmails) >= 2
    /\ selectedIdx = Len(allEmails) - 1
    /\ isGmailMonitorDone
    /\ err

\* the selected entry is one of the entries the list pane shows
SelectedInViewport ==
    /\ viewportTopLine <= selectedIdx
    /\ selectedIdx < viewportTopLine + getNumItemsThatFitInList(height)

ListIsShown == Len(allEmails) > 0 /\ getNumItemsThatFitInList(height) > 0

\* C6, as the spec states it: in every state with a non-empty allEmails and
\* room for at least one entry, the selected entry lies in the viewport.
C6_SelectedAlwaysInViewport == ListIsShown => SelectedInViewport

\* C6, amended: the selected entry lies in the viewport after every event whose
\* handler calls ensureSelectedVisible (a resize, a NewEmailMsg, a key or a click
\* that moves the selection), and every event other than the mouse wheel keeps
\* it there; the wheel over the list pane moves viewportTopLine alone.
C6_SelectedInViewportButForWheel ==
    [][ /\ ( /\ \/ WindowSizeMsg
                \/ NewEmailMsg
                \/ (KeyDashboard \/ MouseLeft) /\ selectedIdx' # selectedIdx
             /\ ListIsShown' )
           => SelectedInViewport'
        /\ ( /\ ~(MouseWheelUp \/ MouseWheelDown)
             /\ ListIsShown /\ SelectedInViewport
             /\ ListIsShown' )
           => SelectedInViewport'
      ]_vars

\* the viewport has followed the selection down the list
C6_Witness ==
    /\ Len(allEmails) >= 3
    /\ getNumItemsThatFitInList(height) = 2
    /\ selectedIdx = Len(allEmails) - 1
    /\ viewportTopLine = selectedIdx - 1

\* the ids of the sends of one phase, in the order of the sends
RECURSIVE SentIn(_, _)
SentIn(log, poll) ==
    IF log = <<>> THEN <<>>
    ELSE IF Head(log).poll = poll THEN <<Head(log).id>> \o SentIn(Tail(log), poll)
    ELSE SentIn(Tail(log), poll)

\* s is a subsequence of the reverse of page
RECURSIVE InReverseOrderOf(_, _)
InReverseOrderOf(s, page) ==
    IF s = <<>> THEN TRUE
    ELSE IF page = <<>> THEN FALSE
    ELSE IF Head(s) = page[Len(page)]
         THEN InReverseOrderOf(Tail(s), SubSeq(page, 1, Len(page) - 1))
         ELSE InReverseOrderOf(s, SubSeq(page, 1, Len(page) - 1))

\* C7: a non-empty initial page makes its first id the baseline in the step of
\* the list call, before any fetch; the fetches start at the page's last id and
\* go backwards through the page one id at a time, each send being of the id
\* just fetched; so the sends of the initial phase are in the reverse of the
\* page's order, and the baseline is the page's first id throughout.
C7_InitialPhase ==
    /\ [][ /\ (pc = "initialList" /\ pc' = "initialFetch") =>
                /\ initialList' = ListMessages(initialFetchCount)
                /\ lastMessageId' = initialList'[1]
                /\ i' = Len(initialList') - 1
                /\ UNCHANGED <<sentLog, filteredLog, emailChan>>
           /\ (pc = "initialSend" /\ sentLog' # sentLog) =>
                /\ sentLog' = Append(sentLog, [id |-> initialList[i + 1], poll |-> 0])
                /\ i' = i - 1
           /\ (pc \in {"initialFetch", "initialSend"} /\ i' # i) => i' = i - 1
           /\ (pc \in {"initialFetch", "initialSend"} /\ pc' = "ticker") => i = 0
         ]_vars
    /\ [](pc \in {"initialFetch", "initialSend"} =>
              /\ lastMessageId = initialList[1]
              /\ InReverseOrderOf(SentIn(sentLog, 0), SubSeq(initialList, i + 2, Len(initialList))))

\* the page [3, 2, 1]: 1 and 3 were sent in this order, 2 was dropped by the
\* filter, the baseline is 3
C7_Witness ==
    /\ pc = "ticker" /\ polls = 0
    /\ SentIn(sentLog, 0) = <<1, 3>>
    /\ filteredLog = {2}
    /\ lastMessageId = 3

\* the ids of page before the first occurrence of last, all of page if there is none
NewIn(page, last) ==
    IF \E k \in 1..Len(page) : page[k] = last
    THEN LET first == CHOOSE k \in 1..Len(page) :
                          /\ page[k] = last
                          /\ \A j \in 1..(k - 1) : page[j] # last
         IN [j \in 1..(first - 1) |-> page[j]]
    ELSE page

\* C8: a poll treats as new the ids of the page before the first occurrence of
\* the baseline, the whole page if the baseline is empty or not in the page; it
\* fetches them from the last one backwards, each send being of the id just
\* fetched; after the last one the baseline is the first id of the page; a poll
\* with nothing new sends nothing and keeps the baseline.
C8_PollClassification ==
    [][ /\ (pc = "ticker" /\ pc' = "pollFetch") =>
             /\ newList' = ListMessages(periodicFetchCount)
             /\ newMessagesToProcess' = NewIn(newList', lastMessageId)
             /\ i' = Len(newMessagesToProcess') - 1
             /\ UNCHANGED <<sentLog, lastMessageId>>
        /\ (pc = "ticker" /\ pc' = "ticker" /\ polls' # polls) =>
             /\ \/ PollListFails
                \/ NewIn(ListMessages(periodicFetchCount), lastMessageId) = <<>>
             /\ UNCHANGED <<sentLog, lastMessageId>>
        /\ (pc = "pollSend" /\ sentLog' # sentLog) =>
             /\ sentLog' = Append(sentLog, [id |-> newMessagesToProcess[i + 1],
                                            poll |-> polls])
             /\ i' = i - 1
        /\ (pc \in {"pollFetch", "pollSend"} /\ i' # i) => i' = i - 1
        /\ (pc \in {"pollFetch", "pollSend"} /\ pc' = "pollDone") => i = 0
        /\ (pc = "pollDone" /\ pc' = "ticker") => lastMessageId' = newList[1]
      ]_vars

\* a poll whose page held the baseline second has sent the one id before it,
\* which is the baseline now
C8_Witness ==
    /\ pc = "ticker"
    /\ polls > 0
    /\ ~baselineMissed
    /\ SentIn(sentLog, 0) # <<>>
    /\ SentIn(sentLog, polls) = <<lastMessageId>>
    /\ Len(ListMessages(periodicFetchCount)) = 2
    /\ ListMessages(periodicFetchCount)[1] = lastMessageId

\* the lower-cased s holds the lower-cased t at some position
HoldsFolded(s, t) ==
    \E p \in 0..(Len(s) - Len(t)) :
        \A k \in 1..Len(t) : ToLowerChar(s[p + k]) = ToLowerChar(t[k])

Exclude(id) ==
    \/ \E k \in 1..Len(IgnoreSenders) : HoldsFolded(MailFrom(id), IgnoreSenders[k])
    \/ \E k \in 1..Len(IgnoreKeywordsInSubject) :
           HoldsFolded(MailSubject(id), IgnoreKeywordsInSubject[k])

\* C9: no id sent on emailChan, in either phase, is one that Exclude holds of,
\* every id the filter dropped is one, and applyFilters is true of a message
\* exactly when its From holds an ignored sender or its Subject an ignored
\* keyword, letter case aside.
C9_ExcludedNeverSent ==
    /\ \A a \in 1..Len(sentLog) : ~Exclude(sentLog[a].id)
    /\ \A a \in 1..Len(emailChan) : ~Exclude(emailChan[a].ID)
    /\ \A id \in filteredLog : Exclude(id)
    /\ \A id \in MsgIds : applyFilters(parseEmailDetails(id)) <=> Exclude(id)

\* the filter has dropped a message for its sender and one for its subject,
\* and messages were sent in both phases
C9_Witness ==
    /\ filteredLog = {2, 4}
    /\ SentIn(sentLog, 0) # <<>>
    /\ \E a \in 1..Len(sentLog) : sentLog[a].poll > 0

\* C10: while statusIsTemp, a StatusTickMsg leaves statusBarText, statusIsError
\* and statusIsTemp as they are; the status is made temporary only together with
\* a timer of tempStatusDuration for its clearTempStatusMsg, so that one is
\* pending whenever statusIsTemp; a clearTempStatusMsg that finds statusIsTemp
\* ends it and sets the standard text for the state of that moment.
C10_TemporaryStatus ==
    /\ [][ /\ (StatusTickMsg /\ statusIsTemp) => UNCHANGED statusVars
           /\ (statusIsTemp' /\ statusVars' # statusVars) =>
                /\ ~statusIsError'
                /\ tempTimers' = Append(tempTimers, [after |-> tempStatusDuration,
                                                     of |-> arrivals'])
           /\ (ClearTempStatusMsg /\ statusIsTemp) =>
                /\ ~statusIsTemp' /\ ~statusIsError'
                /\ statusBarText' =
                       StandardText(isGmailMonitorDone, Len(allEmails), currentView)
         ]_vars
    /\ [](statusIsTemp => tempTimers # <<>>)

\* two temporary statuses have been shown, their timers have run out, and the
\* status is the standard one of the dashboard
C10_Witness ==
    /\ arrivals >= 2
    /\ tempTimers = <<>>
    /\ ~statusIsTemp /\ ~statusIsError
    /\ currentView = "viewDashboard"
    /\ statusBarText = StandardText(isGmailMonitorDone, Len(allEmails), currentView)

\* floor(max(0, available list height) / 4) for a terminal of h rows
ItemsPerPage(h) ==
    LET available == h - statusBarHeight - listTitleRenderedHeight
    IN (IF available > 0 THEN available ELSE 0) \div emailListItemHeight

\* the viewport algorithm of the spec for total entries, selection sel, the
\* viewportTop before and h rows
ViewportTopFor(total, sel, top, h) ==
    LET ipp == ItemsPerPage(h)
        moved == CASE sel < top -> sel
                   [] sel >= top + ipp -> sel - ipp + 1
                   [] OTHER -> top
        most == IF total - ipp > 0 THEN total - ipp ELSE 0
    IN IF total = 0 THEN 0
       ELSE IF ipp <= 0 THEN sel
       ELSE IF moved < 0 THEN 0
       ELSE IF moved > most THEN most
       ELSE moved

\* C11: the list height and the number of entries that fit are never negative,
\* the latter is floor(max(0, height - 3) / 4), viewportTopLine is never
\* negative, and every handler that runs ensureSelectedVisible (resize,
\* NewEmailMsg, a key or click that moves the selection) leaves viewportTopLine
\* at the value of the viewport algorithm: selectedIdx if nothing fits, else
\* moved to keep the selection in the window and clamped to
\* [0, max(0, total - itemsPerPage)].
C11_ViewportComputation ==
    /\ [](/\ getVisibleEmailListHeight(height) >= 0
          /\ getNumItemsThatFitInList(height) >= 0
          /\ getNumItemsThatFitInList(height) = ItemsPerPage(height)
          /\ viewportTopLine >= 0)
    /\ [][ ( \/ WindowSizeMsg
             \/ NewEmailMsg
             \/ (KeyDashboard \/ MouseLeft) /\ selectedIdx' # selectedIdx )
           => viewportTopLine' =
                  ViewportTopFor(Len(allEmails'), selectedIdx', viewportTopLine, height')
         ]_vars

\* the terminal is 40 x 2, nothing fits, and viewportTopLine is the selected
\* index, which is not the first
C11_Witness ==
    /\ width = 40 /\ height = 2
    /\ getNumItemsThatFitInList(height) = 0
    /\ Len(allEmails) >= 2
    /\ selectedIdx >= 1
    /\ viewportTopLine = selectedIdx

\* the ids of the NewEmailMsg handled so far, in the order of their handling
HandledIds ==
    [k \in 1..arrivals |->
        allEmails[CHOOSE a \in 1..Len(allEmails) : allEmails[a].arrival = k].ID]

\* the ids received from the channel or still buffered in it, oldest first
InFlightIds ==
    (IF recv.st = "NewEmailMsg" THEN <<recv.email.ID>> ELSE <<>>)
        \o [k \in 1..Len(emailChan) |-> emailChan[k].ID]

\* C12: the ids of the NewEmailMsg handled, followed by the one received and
\* not yet handled and by those buffered in emailChan, are the ids sent, in the
\* order of the sends: nothing is reordered, lost or doubled on the way; and of
\* two sends of one phase (the initial one, or one poll) the earlier is of the
\* older message.
C12_HandledInSendOrder ==
    /\ Len(allEmails) = arrivals
    /\ \A k \in 1..arrivals : \E a \in 1..Len(allEmails) : allEmails[a].arrival = k
    /\ HandledIds \o InFlightIds = [k \in 1..Len(sentLog) |-> sentLog[k].id]
    /\ \A a, b \in 1..Len(sentLog) :
           (a < b /\ sentLog[a].poll = sentLog[b].poll) =>
               /\ sentLog[a].id < sentLog[b].id
               /\ MailInternalDate(sentLog[a].id) <= MailInternalDate(sentLog[b].id)

\* two messages were handled, the second one sent by a poll, while a third
\* waits in the channel
C12_Witness ==
    /\ arrivals >= 2
    /\ sentLog[arrivals].poll > 0
    /\ sentLog[1].poll = 0
    /\ Len(emailChan) >= 1

\* C13: with width > 0, the view is not viewLoading once a NewEmailMsg or the
\* EmailMonitorStoppedMsg has been handled.
C13_LoadingEnds ==
    (width > 0 /\ (arrivals > 0 \/ isGmailMonitorDone)) => currentView # "viewLoading"

\* the first message was handled before the terminal had a size (its status
\* is the temporary one), and the resize that followed has ended the loading
C13_Witness ==
    /\ arrivals = 1
    /\ statusIsTemp
    /\ ~isGmailMonitorDone
    /\ width > 0
    /\ currentView = "viewDashboard"

\* C14, amended: StartMonitoring returns only once appCtx is cancelled and only
\* from a send or from the wait for the ticker; emailChan is closed only after
\* that return, stays closed and is not written to again; the UI gets
\* EmailMonitorStoppedMsg only from the closed and emptied channel, after it has
\* handled every message sent.
C14_ClosedAfterReturn ==
    /\ [](chanClosed => pc = "closed")
    /\ []((recv.st = "EmailMonitorStoppedMsg" \/ isGmailMonitorDone) =>
              /\ chanClosed /\ emailChan = <<>>
              /\ arrivals = Len(sentLog))
    /\ [][ /\ (pc' = "returned" /\ pc # "returned") =>
                cancelled /\ pc \in {"initialSend", "pollSend", "ticker"}
           /\ (chanClosed' /\ ~chanClosed) => pc = "returned"
           /\ chanClosed =>
                /\ chanClosed'
                /\ sentLog' = sentLog
                /\ Len(emailChan') <= Len(emailChan)
         ]_vars

\* C14, as the spec states it: besides the above, cancellation leads to the
\* return of StartMonitoring, to the closed channel and to the
\* EmailMonitorStoppedMsg handled by the UI.
C14_CancellationReachesTheUI ==
    /\ C14_ClosedAfterReturn
    /\ cancelled ~> (pc \in {"returned", "closed"})
    /\ cancelled ~> chanClosed
    /\ cancelled ~> isGmailMonitorDone

\* after a cancellation the UI has handled the messages sent and then the
\* EmailMonitorStoppedMsg
C14_Witness ==
    /\ cancelled
    /\ isGmailMonitorDone
    /\ arrivals >= 2
    /\ pc = "closed"

\* C15: while the program runs a quit key is taken, in viewLoading,
\* viewDashboard and viewFocusedEmail, with or without err and
\* isGmailMonitorDone; it announces the quit in the status bar and issues
\* tea.Quit, after which no field of the model changes any more.
C15_QuitAcceptedAndTerminal ==
    /\ [](Running => ENABLED KeyQuit)
    /\ [][ /\ KeyQuit => (uiQuit' /\ statusBarText' = PlainText("Quitting..."))
           /\ uiQuit => (uiQuit' /\ UNCHANGED <<modelVars, recv, tempTimers, arrivals>>)
         ]_vars

\* the quit key was taken in the focused view after an error and after the
\* monitor had stopped
C15_Witness ==
    /\ uiQuit
    /\ statusBarText = PlainText("Quitting...")
    /\ currentView = "viewFocusedEmail"
    /\ err
    /\ isGmailMonitorDone

StoppedText == PlainText("Email monitoring stopped. No new emails will be fetched.")

\* C16: EmailMonitorStoppedMsg comes from the closed channel only; it sets
\* isGmailMonitorDone, which stays set, it leaves viewLoading and does not quit.
\* The text that no new emails will be fetched is set only when the view was
\* viewLoading; otherwise, and at every later StatusTickMsg outside a temporary
\* status, the status bar holds the standard status, which reads "Monitor Off".
C16_MonitorStopped ==
    /\ [](isGmailMonitorDone =>
             /\ chanClosed
             /\ currentView # "viewLoading"
             /\ statusBarText.kind = "standard" => statusBarText.monitor = "Monitor Off")
    /\ [][ /\ isGmailMonitorDone => isGmailMonitorDone'
           /\ EmailMonitorStoppedMsg =>
                /\ isGmailMonitorDone' /\ ~uiQuit'
                /\ IF currentView = "viewLoading"
                   THEN statusBarText' = StoppedText /\ ~statusIsTemp' /\ ~statusIsError'
                   ELSE \/ statusIsTemp /\ UNCHANGED statusVars
                        \/ /\ ~statusIsTemp
                           /\ statusBarText' = StandardText(TRUE, Len(allEmails), currentView)
           /\ (isGmailMonitorDone /\ ~statusIsTemp /\ StatusTickMsg) =>
                /\ statusBarText' = StandardText(TRUE, Len(allEmails), currentView)
                /\ ~statusIsError'
         ]_vars

\* the text set by EmailMonitorStoppedMsg has been replaced by the standard status
C16_Witness ==
    /\ isGmailMonitorDone /\ ~uiQuit
    /\ statusBarText = StandardText(TRUE, Len(allEmails), "viewDashboard")
    /\ allEmails = <<>>

\* C16 as stated: once the monitor has stopped, no StatusTickMsg replaces the
\* text that no new emails will be fetched.
C16_StoppedTextPersists ==
    /\ [](isGmailMonitorDone => currentView # "viewLoading")
    /\ [][ /\ isGmailMonitorDone => isGmailMonitorDone'
           /\ EmailMonitorStoppedMsg =>
                (isGmailMonitorDone' /\ ~uiQuit' /\ statusBarText' = StoppedText)
           /\ (isGmailMonitorDone /\ statusBarText = StoppedText /\ StatusTickMsg) =>
                statusBarText' = StoppedText
         ]_vars

\* C17: once err is set it stays set and, with nonzero dimensions, View renders
\* the error text only; and no key or mouse event that is not a quit changes
\* currentView, selectedIdx, viewportTopLine or a scroll position while err is set.
C17_ErrorFreezesTheView ==
    /\ [](err /\ width # 0 /\ height # 0 => View = "Application Error")
    /\ [][ /\ err => err'
           /\ (err /\ (KeyDashboard \/ KeyFocused \/ MouseWheelUp \/ MouseWheelDown
                       \/ MouseLeft)) =>
                UNCHANGED <<currentView, selectedIdx, viewportTopLine,
                            previewScrollPos, focusedEmailScrollPos>>
         ]_vars

\* C18: a poll cycle that listed a non-empty page and ran to its end leaves
\* lastMessageId at the first id of that page: when no id of the page was new
\* the cycle ends with the list call, otherwise with the statement after the loop,
\* whatever the fetches and the filters did with the new ids.
C18_BaselineIsPageHead ==
    [][ /\ (PollListCall /\ pc' = "ticker" /\ Len(ListMessages(periodicFetchCount)) > 0) =>
              lastMessageId' = ListMessages(periodicFetchCount)[1]
        /\ (pc = "pollDone" /\ pc' = "ticker") =>
              (newList # <<>> /\ lastMessageId' = newList[1])
        /\ (pc \in {"pollFetch", "pollSend", "pollDone"}) =>
              (newList' = newList \/ pc' = "ticker")
      ]_vars

\* the second poll listed 5 and 4 as new; 4 was filtered out and the fetch of 5
\* failed, and the baseline is 5
C18_Witness ==
    /\ pc = "ticker" /\ polls = 2
    /\ lastMessageId = 5
    /\ 4 \in filteredLog /\ 5 \notin filteredLog
    /\ \E k \in 1..Len(sentLog) : sentLog[k] = [id |-> 3, poll |-> 1]
    /\ \A k \in 1..Len(sentLog) : sentLog[k].id # 5

\* C19: every assignment of lastMessageId over an earlier baseline names a message
\* whose InternalDate is not smaller than that of the message named before.
C19_BaselineNeverOlder ==
    [][ (lastMessageId # NoId /\ lastMessageId' # lastMessageId) =>
            /\ lastMessageId' # NoId
            /\ MailInternalDate(lastMessageId') >= MailInternalDate(lastMessageId)
      ]_vars

\* C20: a message whose fetch failed is tried again at the next opportunity: a
\* poll that lists it, no fetch of it having succeeded since, takes it as new.
C20_FailedFetchIsRetried ==
    [][ PollListCall =>
           \A x \in fetchFailed :
              (\E k \in 1..Len(ListMessages(periodicFetchCount)) :
                   ListMessages(periodicFetchCount)[k] = x)
              => \E k \in 1..Len(newMessagesToProcess') : newMessagesToProcess'[k] = x
      ]_vars

\* C21: a list call that fails, initial or of a poll, fetches and sends nothing
\* and leaves lastMessageId as it was; StartMonitoring then waits for the ticker,
\* where the next tick's list call can be made.
C21_FailedListAbortsOnlyTheCycle ==
    /\ [](pc = "ticker" /\ Running /\ polls < MaxPolls => ENABLED PollListCall)
    /\ [][ (InitialListFails \/ PollListFails) =>
              /\ pc' = "ticker"
              /\ UNCHANGED <<lastMessageId, emailChan, chanClosed, sentLog,
                             filteredLog, fetchFailed, processedEmail>>
         ]_vars

\* nothing came of the initial list call, the first poll has listed message 1 with
\* no baseline and sent it
C21_Witness ==
    /\ pc = "ticker" /\ polls = 1
    /\ lastMessageId = 1
    /\ sentLog = <<[id |-> 1, poll |-> 1]>>

\* what StartMonitoring has done so far: calls made, messages sent, the baseline
MonitorProgress ==
    <<lastMessageId, initialList, newList, newMessagesToProcess, i, processedEmail,
      polls, sentLog, filteredLog, fetchFailed>>

\* C22: at a send with the channel full and the context cancelled, the one step
\* StartMonitoring can take is the return; the return leaves the message unsent,
\* and after it nothing is listed, fetched or sent and lastMessageId stays.
C22_CancelledSendReturns ==
    /\ [](Running /\ cancelled /\ pc \in {"initialSend", "pollSend"}
              /\ Len(emailChan) = emailChanCap =>
            /\ ENABLED SendCancelled
            /\ ~ENABLED (InitialSend \/ PollSend \/ InitialFetch \/ InitialFetchFails
                         \/ PollFetch \/ PollFetchFails \/ PollListCall
                         \/ PollListFails \/ PollUpdateBaseline \/ InitialListCall
                         \/ InitialListFails \/ InitialDelay \/ TickerCancelled
                         \/ CloseChannel))
    /\ [][ /\ SendCancelled =>
                (pc' = "returned" /\ UNCHANGED <<MonitorProgress, emailChan>>)
           /\ pc \in {"returned", "closed"} =>
                /\ pc' \in {"returned", "closed"}
                /\ UNCHANGED MonitorProgress
                /\ Len(emailChan') <= Len(emailChan)
         ]_vars

\* StartMonitoring has returned from a send of a poll with the message in hand
\* and the channel full
C22_Witness ==
    /\ pc = "returned"
    /\ processedEmail # NoId
    /\ newMessagesToProcess # <<>>
    /\ Len(emailChan) = emailChanCap

\* C23: StartMonitoring returns only on cancellation and only from the initial
\* delay, the ticker wait or a send, never from a fetch; and once the context is
\* cancelled during the initial delay it leaves the delay by returning, with no
\* list call.
C23_ThreeCheckpoints ==
    [][ /\ (pc' = "returned" /\ pc # "returned") =>
              (cancelled /\ pc \in {"sleep", "ticker", "initialSend", "pollSend"})
        /\ (cancelled /\ pc = "sleep") => pc' \in {"sleep", "returned"}
      ]_vars

\* C24: emailChan never holds more than emailChanCap messages; a send that finds
\* it full leaves StartMonitoring with no step but the return on cancellation, and
\* as long as the send is pending nothing else of the cycle is done; unless the UI
\* quits, a pending send is eventually over.
C24_Backpressure ==
    /\ [](Len(emailChan) <= emailChanCap)
    /\ [](Running /\ pc \in {"initialSend", "pollSend"}
              /\ Len(emailChan) = emailChanCap =>
            /\ ENABLED SendCancelled <=> cancelled
            /\ ~ENABLED (InitialSend \/ PollSend \/ InitialFetch \/ InitialFetchFails
                         \/ PollFetch \/ PollFetchFails \/ PollListCall
                         \/ PollListFails \/ PollUpdateBaseline \/ InitialListCall
                         \/ InitialListFails \/ InitialDelay \/ TickerCancelled
                         \/ CloseChannel))
    /\ [][ (pc \in {"initialSend", "pollSend"} /\ pc' = pc /\ sentLog' = sentLog) =>
              UNCHANGED MonitorProgress ]_vars
    /\ (pc \in {"initialSend", "pollSend"}) ~>
           (pc \notin {"initialSend", "pollSend"} \/ uiQuit)

\* three messages have been sent through a channel of two, which is full again
C24_Witness ==
    /\ Len(sentLog) = emailChanCap + 1
    /\ Len(emailChan) = emailChanCap
    /\ pc = "ticker"

SentIds == {sentLog[k].id : k \in 1..Len(sentLog)}

\* C25: on a mailbox that only grows, by no more than a page between two list
\* calls, with every call succeeding: between two cycles every message up to the
\* baseline that the filter does not exclude has been sent, and every message of
\* the mailbox that the filter does not exclude is sent in the end, unless it
\* arrived after the last list call made.
C25_NothingMissed ==
    /\ [](pc = "ticker" =>
             \A id \in inbox : (id <= lastMessageId /\ ~Exclude(id)) => id \in SentIds)
    /\ \A id \in 1..NumMsgs :
          (id \in inbox /\ ~Exclude(id)) ~>
              \/ id \in SentIds
              \/ polls = MaxPolls /\ pc = "ticker" /\ id > lastMessageId

\* a full page of two arrived between two list calls, the baseline was not on the
\* page, and nothing has been missed
C25_Witness ==
    /\ pc = "ticker" /\ polls = MaxPolls
    /\ baselineMissed
    /\ lastMessageId = 5
    /\ SentIds = {1, 3, 5}

\* C26: the view leaves viewLoading only for viewDashboard and only in a step
\* after which width > 0 and a message has been received or the monitor has
\* stopped; with these it is not viewLoading; and it never becomes viewLoading
\* again.
C26_LoadingToDashboard ==
    /\ []((width > 0 /\ (Len(allEmails) > 0 \/ isGmailMonitorDone)) =>
              currentView # "viewLoading")
    /\ [][ /\ currentView # "viewLoading" => currentView' # "viewLoading"
           /\ (currentView = "viewLoading" /\ currentView' # "viewLoading") =>
                /\ currentView' = "viewDashboard"
                /\ width' > 0
                /\ (Len(allEmails') > 0 \/ isGmailMonitorDone')
         ]_vars

\* C27: the view goes from viewDashboard to viewFocusedEmail only by a key of the
\* dashboard, with a valid selection that the step keeps; it leaves
\* viewFocusedEmail only for viewDashboard and only by a key of the focused view;
\* viewLoading never leads to viewFocusedEmail; and in viewFocusedEmail
\* selectedIdx is an index of allEmails.
C27_FocusedHasSelection ==
    /\ [](currentView = "viewFocusedEmail" => SelectedValid(allEmails, selectedIdx))
    /\ [][ /\ (currentView # "viewFocusedEmail" /\ currentView' = "viewFocusedEmail") =>
                /\ currentView = "viewDashboard"
                /\ KeyDashboard
                /\ SelectedValid(allEmails, selectedIdx)
                /\ UNCHANGED <<allEmails, selectedIdx>>
           /\ (currentView = "viewFocusedEmail" /\ currentView' # "viewFocusedEmail") =>
                /\ currentView' = "viewDashboard"
                /\ KeyFocused
                /\ UNCHANGED <<allEmails, selectedIdx>>
           /\ (currentView = "viewDashboard" /\ currentView' # "viewDashboard") =>
                currentView' = "viewFocusedEmail"
         ]_vars

\* the second of two messages is open in the focused view
C27_Witness ==
    /\ currentView = "viewFocusedEmail"
    /\ Len(allEmails) = 2
    /\ selectedIdx = 1

\* C28: NewEmailMsg leaves the selection on a message of the id that was selected
\* before it; with no message selected before, on the message it inserts.
C28_InsertionKeepsSelection ==
    [][ NewEmailMsg =>
          /\ SelectedValid(allEmails', selectedIdx')
          /\ IF SelectedValid(allEmails, selectedIdx)
             THEN allEmails'[selectedIdx' + 1].ID = allEmails[selectedIdx + 1].ID
             ELSE /\ allEmails = <<>>
                  /\ allEmails'[selectedIdx' + 1].ID = recv.email.ID
      ]_vars

\* the message received first is still the selected one, below a newer message
\* that was inserted above it
C28_Witness ==
    /\ Len(allEmails) = 3
    /\ selectedIdx = 1
    /\ allEmails[2].arrival = 1
    /\ allEmails[1].arrival = 3

\* C29: NewEmailMsg changes neither previewScrollPos nor focusedEmailScrollPos.
C29_InsertionKeepsScroll ==
    [][ NewEmailMsg => UNCHANGED <<previewScrollPos, focusedEmailScrollPos>> ]_vars

\* a message has just been inserted above the selected one, which is open in the
\* focused view and scrolled; the preview is scrolled too
C29_Witness ==
    /\ currentView = "viewFocusedEmail"
    /\ focusedEmailScrollPos > 0
    /\ previewScrollPos > 0
    /\ statusIsTemp
    /\ selectedIdx > 0
    /\ allEmails[1].arrival = arrivals

\* a key or a click has moved the selection
SelectionMoved == (KeyDashboard \/ MouseLeft) /\ selectedIdx' # selectedIdx

\* C30, amended: a key or a click that moves the selection sets both offsets to 0;
\* enter sets focusedEmailScrollPos to 0 and leaves previewScrollPos; esc leaves
\* both.
C30_ScrollResets ==
    [][ /\ SelectionMoved => (previewScrollPos' = 0 /\ focusedEmailScrollPos' = 0)
        /\ (currentView = "viewDashboard" /\ currentView' = "viewFocusedEmail") =>
              (focusedEmailScrollPos' = 0 /\ UNCHANGED previewScrollPos)
        /\ (currentView = "viewFocusedEmail" /\ currentView' = "viewDashboard") =>
              UNCHANGED <<previewScrollPos, focusedEmailScrollPos>>
      ]_vars

\* back in the dashboard with both offsets as they were left
C30_Witness ==
    /\ currentView = "viewDashboard"
    /\ focusedEmailScrollPos > 0
    /\ previewScrollPos > 0

\* C30 as stated: both offsets are 0 after every key or click that moves the
\* selection and after every switch between the dashboard and the focused view.
C30_ScrollResetsOnEverySwitch ==
    [][ ( \/ SelectionMoved
          \/ (currentView = "viewDashboard" /\ currentView' = "viewFocusedEmail")
          \/ (currentView = "viewFocusedEmail" /\ currentView' = "viewDashboard") ) =>
           (previewScrollPos' = 0 /\ focusedEmailScrollPos' = 0)
      ]_vars

Clamp(x, lo, hi) == IF x < lo THEN lo ELSE IF x > hi THEN hi ELSE x

\* the focused view's content lines and display lines in the current state
FocusedTotal == focusedContentLines(SelectedBodyLines)
FocusedPage == getFocusedViewContentRenderHeight(contentHeight(height))

\* C31: with more lines than the pane shows and a pane of at least one line, the
\* first line rendered, in the preview and in the focused view, is the stored
\* offset clamped to [0, total - page], and a full page of lines follows it.
C31_RenderedFromClampedOffset ==
    /\ \A pos \in -1..(MaxLines + 2), total \in 0..MaxLines, page \in 0..MaxLines :
          (total > page /\ page > 0) =>
            /\ previewStartLine(pos, total, page) = Clamp(pos, 0, total - page)
            /\ focusedStartLine(pos, total, page) = Clamp(pos, 0, total - page)
            /\ renderEndLine(Clamp(pos, 0, total - page), total, page)
                  = Clamp(pos, 0, total - page) + page
    /\ (currentView = "viewFocusedEmail" /\ FocusedTotal > FocusedPage /\ FocusedPage > 0) =>
          LET start == focusedStartLine(focusedEmailScrollPos, FocusedTotal, FocusedPage)
          IN /\ start = Clamp(focusedEmailScrollPos, 0, FocusedTotal - FocusedPage)
             /\ renderEndLine(start, FocusedTotal, FocusedPage) - start = FocusedPage

\* the focused view shows 9 of the 10 lines of a message and the stored offset
\* is 2, one past the last offset that fills the pane
C31_Witness ==
    /\ currentView = "viewFocusedEmail"
    /\ FocusedTotal = 10 /\ FocusedPage = 9
    /\ focusedEmailScrollPos = 2

\* C32: a StatusTickMsg handled while the status is an error leaves the text and
\* the error flag of the status as they are.
C32_ErrorSurvivesTicks ==
    [][ (StatusTickMsg /\ statusIsError) => UNCHANGED <<statusBarText, statusIsError>> ]_vars

\* C33: a clearTempStatusMsg of a timer older than the one set with the temporary
\* status on display leaves that status on display.
C33_ExpiryEndsOwnStatusOnly ==
    [][ (ClearTempStatusMsg /\ statusIsTemp /\ Len(tempTimers) > 1) =>
           (statusIsTemp' /\ statusBarText' = statusBarText) ]_vars

\* C34: a clearTempStatusMsg handled while the status is not temporary changes no
\* field of the Model.
C34_LateExpiryChangesNothing ==
    [][ (ClearTempStatusMsg /\ ~statusIsTemp) => UNCHANGED modelVars ]_vars

\* an error is on display while the timer of the temporary status it replaced is
\* still pending
C34_Witness ==
    /\ statusIsError
    /\ statusBarText = PlainText("Error")
    /\ tempTimers # <<>>
    /\ currentView # "viewLoading"

\* what a wheel event at a column x of the screen may change, by the panes as
\* View lays them out
WheelChangesPaneUnderCursor ==
    \A x \in MouseXs :
       (x < width /\ (MouseWheelUpAt(x) \/ MouseWheelDownAt(x))) =>
          /\ UNCHANGED <<selectedIdx, currentView>>
          /\ currentView = "viewDashboard" =>
               IF x < actualListPaneWidth(width)
               THEN UNCHANGED scrollVars
               ELSE UNCHANGED <<viewportTopLine, focusedEmailScrollPos>>
          /\ currentView = "viewFocusedEmail" =>
               UNCHANGED <<viewportTopLine, previewScrollPos>>

\* C35: in the dashboard the boundary that classifies the column of a mouse event
\* is the width of the list pane that View renders; a wheel event at a column of
\* the screen changes neither selectedIdx nor currentView; in the dashboard it
\* changes nothing but viewportTopLine when the column is in the rendered list
\* pane and nothing but previewScrollPos when it is in the rendered preview pane;
\* in the focused view it changes nothing but focusedEmailScrollPos.
C35_WheelScrollsPaneUnderCursor ==
    /\ [](currentView = "viewDashboard" /\ width > 0 =>
              listPaneBoundaryX(width) = actualListPaneWidth(width))
    /\ [][WheelChangesPaneUnderCursor]_vars

C37_TitleRowSelectsNothing ==
    [][ \A x \in MouseXs, y \in MouseYs :
          (MouseLeftAt(x, y) /\ y < listTitleRenderedHeight) =>
             UNCHANGED <<selectedIdx, viewportTopLine, scrollVars>>
      ]_vars

\* the widths of the two panes of the dashboard at width w, as C38 states them
LayoutAsStated(w) ==
    LET list == actualListPaneWidth(w)
        preview == actualPreviewPaneWidth(w)
    IN /\ list >= 0 /\ preview >= 0
       /\ list + preview = w
       /\ w >= minListPaneWidth + minPreviewPaneWidth =>
             (list >= minListPaneWidth /\ preview >= minPreviewPaneWidth)
       /\ w < minListPaneWidth + minPreviewPaneWidth =>
             (list = Min(w, minListPaneWidth) /\ preview = w - list)
       /\ w <= minListPaneWidth => preview = 0

\* C38: at every width the list pane and the preview pane of the dashboard are
\* not negative and add up to the width; from width 70 on the list has at least
\* 30 columns and the preview at least 40; below 70 the list has min(width, 30)
\* and the preview the rest, none at width 30 or less.
C38_LayoutWidths ==
    /\ \A w \in 0..MaxWidth : LayoutAsStated(w)
    /\ currentView = "viewDashboard" => LayoutAsStated(width)

\* the dashboard with a message on a terminal 20 columns wide: the list has the
\* 20 columns and the preview none
C38_Witness ==
    /\ currentView = "viewDashboard"
    /\ allEmails # <<>>
    /\ width = 20
    /\ actualListPaneWidth(width) = 20
    /\ actualPreviewPaneWidth(width) = 0

\* C39: the UI has one receive on emailChan outstanding from Init on, and a
\* handler issues the next one only when it is NewEmailMsg's; once
\* EmailMonitorStoppedMsg has been handled no receive is outstanding and none is
\* issued, so EmailMonitorStoppedMsg is handled once at most and no NewEmailMsg
\* after it.
C39_OneReceiveAtATime ==
    /\ [](recv.st \in {"waiting", "NewEmailMsg", "EmailMonitorStoppedMsg", "none"})
    /\ [](isGmailMonitorDone => recv.st = "none")
    /\ [][ /\ (recv'.st = "waiting" /\ recv.st # "waiting") => NewEmailMsg
           /\ EmailMonitorStoppedMsg => ~isGmailMonitorDone
           /\ NewEmailMsg => ~isGmailMonitorDone
           /\ WaitForEmail => ~isGmailMonitorDone
         ]_vars

\* the stop has been handled after a message was, the channel is closed and no
\* receive is outstanding
C39_Witness ==
    /\ isGmailMonitorDone
    /\ recv.st = "none"
    /\ chanClosed
    /\ allEmails # <<>>
    /\ ~uiQuit

\* C40: in the focused view focusedEmailScrollPos is at least 0 and at most the
\* number of lines of the selected message's content that do not fit in the pane.
C40_FocusedOffsetBounded ==
    currentView = "viewFocusedEmail" =>
        /\ focusedEmailScrollPos >= 0
        /\ focusedEmailScrollPos <= Max(0, FocusedTotal - FocusedPage)

====
